---- MODULE Spec2Model ----
(***************************************************************************)
(* A node of the SECOP contract ledger: the hash-linked chain, the         *)
(* contract projection and the six-step approval workflow                  *)
(* (internal/blockchain), with the P2P operations that write the chain.    *)
(*                                                                         *)
(* Sequences are 1-based: Chain[i] is the Go element Chain[i-1], so the    *)
(* block at Go position p is Chain[p+1] and "index == position" reads      *)
(* Chain[i].Index = i - 1.                                                 *)
(***************************************************************************)
EXTENDS Integers, Sequences, FiniteSets, TLC

VARIABLES
    Chain,      \* Blockchain.Chain: the sequence of blocks
    Contracts,  \* Blockchain.Contracts: contract id -> contract
    Peers,      \* P2PNetwork.Peers: peer id -> peer
    base,       \* length of the chain in the initial state (never changes)
    calls,      \* number of calls made on the node so far
    last,       \* the last call made on the node and what it returned
    pre,        \* Chain and Contracts as they were before the last call
    approvals,  \* history: per contract id, the steps approved on the current contract object
    pc,         \* position of each in-flight request (concurrent specification)
    loc,        \* the locals of each in-flight request (concurrent specification)
    args,       \* history: the inputs of the calls made so far (replication, peers)
    nodes,      \* the ledgers of the nodes of a network (network specification)
    push        \* P2PNetwork.BroadcastBlock: the state of the push to each peer

vars == <<Chain, Contracts, Peers, base, calls, last, pre, approvals, pc, loc, args, nodes, push>>

(***************************************************************************)
(* Bounds of the model.                                                    *)
(***************************************************************************)
\* calls made on the node in one run
MaxCalls == 2
\* blocks by which a chain offered by a peer may be longer than the local one
MaxAhead == 1

(***************************************************************************)
(* Time.  config.GetColombianTime reads the wall clock; Block.calculateHash *)
(* keeps its seconds.  The history of a node and the chains of its peers  *)
(* are stamped StartTime, the calls of a run are stamped Now.  Timestamps *)
(* are carried through every computation; the model does not vary them    *)
(* further.                                                               *)
(***************************************************************************)
StartTime == 0
Now == 1

(***************************************************************************)
(* Program constants and enumerations (block.go).                          *)
(***************************************************************************)
StatusDraft == "DRAFT"
StatusTechnicalReview == "TECHNICAL_REVIEW"
StatusLegalReview == "LEGAL_REVIEW"
StatusContractsReview == "CONTRACTS_REVIEW"
StatusAdminReview == "ADMIN_REVIEW"
StatusBudgetReview == "BUDGET_REVIEW"
StatusAuthorizedForPublication == "AUTHORIZED_FOR_PUBLICATION"
StatusCompleted == "COMPLETED"
StatusRejected == "REJECTED"

RoleProjectDeveloper == "PROJECT_DEVELOPER"
RoleTechnicalCommission == "TECHNICAL_COMMISSION"
RoleLegalCommission == "LEGAL_COMMISSION"
RoleContractsChief == "CONTRACTS_CHIEF"
RoleAdminChief == "ADMIN_CHIEF"
RoleBudgetAuthority == "BUDGET_AUTHORITY"
RoleComptroller == "COMPTROLLER"
RoleProsecutor == "PROSECUTOR"
RoleCitizen == "CITIZEN"

ValidationPending == "PENDING"
ValidationApproved == "APPROVED"
ValidationRejected == "REJECTED"

\* GetWorkflowSteps: the fixed pipeline, one role per step
GetWorkflowSteps ==
    << [StepNumber |-> 1, Role |-> RoleProjectDeveloper, Required |-> TRUE],
       [StepNumber |-> 2, Role |-> RoleTechnicalCommission, Required |-> TRUE],
       [StepNumber |-> 3, Role |-> RoleLegalCommission, Required |-> TRUE],
       [StepNumber |-> 4, Role |-> RoleContractsChief, Required |-> TRUE],
       [StepNumber |-> 5, Role |-> RoleAdminChief, Required |-> TRUE],
       [StepNumber |-> 6, Role |-> RoleBudgetAuthority, Required |-> TRUE] >>

NumSteps == Len(GetWorkflowSteps)

(***************************************************************************)
(* Blocks and hashing (block.go).                                          *)
(*                                                                         *)
(* SHA-256 over the canonical JSON of the six hashed fields is modelled    *)
(* as the digest of exactly those fields: two blocks have the same hash    *)
(* iff they agree on index, timestamp, data, previous_hash, nonce and      *)
(* type (collision freedom).  The empty string hash is EmptyHash.          *)
(***************************************************************************)
EmptyHash == <<>>

calculateHash(b) ==
    <<"sha256", b.Index, b.Timestamp, b.Data, b.PreviousHash, b.Nonce, b.Type>>

\* Block.IsValid
IsValid(b) == b.Hash = calculateHash(b)

\* NewBlock: index 0, no type, hash over that
NewBlock(data, previousHash, now) ==
    LET b == [Index |-> 0, Timestamp |-> now, Data |-> data,
              PreviousHash |-> previousHash, Hash |-> EmptyHash,
              Nonce |-> 0, Type |-> ""]
    IN  [b EXCEPT !.Hash = calculateHash(b)]

\* the genesis block built by NewBlockchain
GenesisBlock(now) ==
    NewBlock([message |-> "SECOP Blockchain Genesis Block"], EmptyHash, now)

getLatestBlock(chain) == chain[Len(chain)]

\* IsValidBlock asking every block, index 0 included, to link to the last
\* block of the chain; C32 tells it from IsValidBlock
IsValidBlockAlwaysLinked(chain, block) ==
    /\ block.Hash # EmptyHash
    /\ block.Hash = calculateHash(block)
    /\ Len(chain) # 0
    /\ chain[Len(chain)].Hash = block.PreviousHash

\* Blockchain.IsValidBlock
IsValidBlock(chain, block) ==
    /\ block.Hash # EmptyHash
    /\ block.Hash = calculateHash(block)
    /\ block.Index > 0 =>
          /\ Len(chain) # 0
          /\ chain[Len(chain)].Hash = block.PreviousHash

\* Blockchain.HasBlock
HasBlock(chain, hash) == \E i \in 1..Len(chain) : chain[i].Hash = hash

\* BuildBlock with the index counted from one; C9 tells it from BuildBlock
BuildBlockFromOne(chain, blockData, now) ==
    LET b0 == NewBlock(blockData, chain[Len(chain)].Hash, now)
        b1 == [b0 EXCEPT !.Index = Len(chain) + 1]
        b2 == IF "type" \in DOMAIN blockData
                 THEN [b1 EXCEPT !.Type = blockData.type]
                 ELSE b1
    IN  [b2 EXCEPT !.Hash = calculateHash(b2)]

\* BuildBlock linking every block to the first one and leaving the index at
\* zero; C12 tells it from BuildBlock
BuildBlockOnGenesis(chain, blockData, now) ==
    LET b0 == NewBlock(blockData, chain[1].Hash, now)
        b2 == IF "type" \in DOMAIN blockData
                 THEN [b0 EXCEPT !.Type = blockData.type]
                 ELSE b0
    IN  [b2 EXCEPT !.Hash = calculateHash(b2)]

\* Blockchain.AddBlock: the block built from blockData on top of the chain
BuildBlock(chain, blockData, now) ==
    LET b0 == NewBlock(blockData, getLatestBlock(chain).Hash, now)
        b1 == [b0 EXCEPT !.Index = Len(chain)]
        b2 == IF "type" \in DOMAIN blockData
                 THEN [b1 EXCEPT !.Type = blockData.type]
                 ELSE b1
    IN  [b2 EXCEPT !.Hash = calculateHash(b2)]

\* Blockchain.AddBlock: [ok, chain, block]
AddBlock(chain, blockData, now) ==
    LET block == BuildBlock(chain, blockData, now)
    IN  IF ~IsValidBlock(chain, block)
          THEN [ok |-> FALSE, chain |-> chain, block |-> block]
          ELSE [ok |-> TRUE, chain |-> Append(chain, block), block |-> block]

\* IsChainValid starting its loop one block late, so that the second block
\* is never looked at; C34 tells it from IsChainValid
IsChainValidFromThird(chain) ==
    \A i \in 3..Len(chain) :
        /\ IsValid(chain[i])
        /\ chain[i].PreviousHash = chain[i-1].Hash

\* Blockchain.IsChainValid
IsChainValid(chain) ==
    \A i \in 2..Len(chain) :
        /\ IsValid(chain[i])
        /\ chain[i].PreviousHash = chain[i-1].Hash

\* IsValidChain without the comparison of previous hashes; C6 tells it from
\* IsValidChain
IsValidChainUnlinked(chain) ==
    /\ Len(chain) # 0
    /\ \A i \in 1..Len(chain) : chain[i].Hash # EmptyHash

\* Blockchain.IsValidChain: hashes present and links intact; hashes are not
\* recomputed and indexes are not looked at
IsValidChain(chain) ==
    /\ Len(chain) # 0
    /\ \A i \in 1..Len(chain) :
          /\ chain[i].Hash # EmptyHash
          /\ i > 1 => chain[i].PreviousHash = chain[i-1].Hash

\* ReplaceChain taking a candidate that is as long as the chain; C11 tells it
\* from ReplaceChainResult
ReplaceChainNotShorter(chain, newChain) ==
    IF Len(newChain) < Len(chain) THEN [ok |-> FALSE, chain |-> chain]
    ELSE IF ~IsValidChain(newChain) THEN [ok |-> FALSE, chain |-> chain]
    ELSE [ok |-> TRUE, chain |-> newChain]

\* Blockchain.ReplaceChain: [ok, chain]
ReplaceChainResult(chain, newChain) ==
    IF Len(newChain) <= Len(chain) THEN [ok |-> FALSE, chain |-> chain]
    ELSE IF ~IsValidChain(newChain) THEN [ok |-> FALSE, chain |-> chain]
    ELSE [ok |-> TRUE, chain |-> newChain]

(***************************************************************************)
(* Contracts and the workflow engine (WorkflowManager).                    *)
(***************************************************************************)
\* the zero time.Time{} of a validation step that was never validated
ZeroTime == -1

\* addAuditEntry putting the contract on hold (back to DRAFT) when the entry
\* is an audit observation; C25 tells it from addAuditEntry
addAuditEntryGating(contract, action, userID, role, description, now) ==
    [contract EXCEPT
        !.Status = IF action = "AUDIT_OBSERVATION" THEN StatusDraft ELSE @,
        !.AuditTrail =
            Append(@, [Action |-> action, UserID |-> userID, UserRole |-> role,
                       Timestamp |-> now, Description |-> description,
                       BlockHash |-> EmptyHash])]

\* WorkflowManager.addAuditEntry: the contract with one more audit entry
addAuditEntry(contract, action, userID, role, description, now) ==
    [contract EXCEPT !.AuditTrail =
        Append(@, [Action |-> action, UserID |-> userID, UserRole |-> role,
                   Timestamp |-> now, Description |-> description,
                   BlockHash |-> EmptyHash])]

\* SetLastBlockHash writing the hash into the oldest audit entry; C24 tells
\* it from SetLastBlockHash
SetLastBlockHashOldest(contract, hash) ==
    IF Len(contract.AuditTrail) > 0
      THEN [contract EXCEPT !.AuditTrail[1].BlockHash = hash]
      ELSE contract

\* the back-fill of the newest audit entry's BlockHash
SetLastBlockHash(contract, hash) ==
    IF Len(contract.AuditTrail) > 0
      THEN [contract EXCEPT !.AuditTrail[Len(contract.AuditTrail)].BlockHash = hash]
      ELSE contract

\* InitializeContractWorkflow writing no audit entry and leaving the current
\* step unset; C20 tells it from InitializeContractWorkflow
InitializeContractWorkflowSilent(contract, now) ==
    LET steps == GetWorkflowSteps
    IN  [contract EXCEPT
            !.ValidationSteps =
                [i \in 1..Len(steps) |->
                    [StepNumber |-> steps[i].StepNumber,
                     Role |-> steps[i].Role,
                     ValidatorID |-> "", ValidatorName |-> "",
                     Status |-> ValidationPending,
                     Timestamp |-> ZeroTime, Comments |-> "",
                     Required |-> steps[i].Required]],
            !.Status = StatusDraft,
            !.UpdatedAt = now]

\* WorkflowManager.InitializeContractWorkflow
InitializeContractWorkflow(contract, now) ==
    LET steps == GetWorkflowSteps
        c1 == [contract EXCEPT
                 !.ValidationSteps =
                     [i \in 1..Len(steps) |->
                         [StepNumber |-> steps[i].StepNumber,
                          Role |-> steps[i].Role,
                          ValidatorID |-> "", ValidatorName |-> "",
                          Status |-> ValidationPending,
                          Timestamp |-> ZeroTime, Comments |-> "",
                          Required |-> steps[i].Required]],
                 !.CurrentStep = 1,
                 !.Status = StatusDraft,
                 !.UpdatedAt = now]
    IN  addAuditEntry(c1, "WORKFLOW_INITIALIZED", contract.CreatedBy,
                      RoleProjectDeveloper, <<"Flujo de trabajo inicializado">>, now)

\* Blockchain.validateContract: TRUE iff no error is returned
validateContract(contract) ==
    /\ contract.EntityCode # ""
    /\ contract.EntityName # ""
    /\ contract.Description # ""
    /\ contract.Amount > 0
    /\ contract.CreatedBy # ""

\* getStatusForStep answering for the step just approved instead of the step
\* that becomes current; C3 tells it from getStatusForStep
getStatusForStepApproved(stepNumber) ==
    CASE stepNumber = 2 -> StatusDraft
      [] stepNumber = 3 -> StatusTechnicalReview
      [] stepNumber = 4 -> StatusLegalReview
      [] stepNumber = 5 -> StatusContractsReview
      [] stepNumber = 6 -> StatusAdminReview
      [] stepNumber = 7 -> StatusBudgetReview
      [] OTHER -> StatusAuthorizedForPublication

\* getStatusForStep answering Completed once the pipeline is through; C36
\* tells it from getStatusForStep
getStatusForStepCompleting(stepNumber) ==
    CASE stepNumber = 1 -> StatusDraft
      [] stepNumber = 2 -> StatusTechnicalReview
      [] stepNumber = 3 -> StatusLegalReview
      [] stepNumber = 4 -> StatusContractsReview
      [] stepNumber = 5 -> StatusAdminReview
      [] stepNumber = 6 -> StatusBudgetReview
      [] OTHER -> StatusCompleted

\* WorkflowManager.getStatusForStep
getStatusForStep(stepNumber) ==
    CASE stepNumber = 1 -> StatusDraft
      [] stepNumber = 2 -> StatusTechnicalReview
      [] stepNumber = 3 -> StatusLegalReview
      [] stepNumber = 4 -> StatusContractsReview
      [] stepNumber = 5 -> StatusAdminReview
      [] stepNumber = 6 -> StatusBudgetReview
      [] OTHER -> StatusAuthorizedForPublication

\* Blockchain.AddContract: [ok, Chain, Contracts, id]; uuid is the id
\* uuid.New() would return
AddContractResult(chain, contracts, contract, uuid, now) ==
    IF ~validateContract(contract)
      THEN [ok |-> FALSE, Chain |-> chain, Contracts |-> contracts, id |-> contract.ID]
      ELSE
        LET id == IF contract.ID = "" THEN uuid ELSE contract.ID
            c0 == [contract EXCEPT !.ID = id, !.CreatedAt = now,
                                   !.UpdatedAt = now, !.Status = StatusDraft]
            c1 == InitializeContractWorkflow(c0, now)
            blockData == [type |-> "CONTRACT_CREATION", contract_id |-> id,
                          entity_code |-> c1.EntityCode,
                          entity_name |-> c1.EntityName,
                          amount |-> c1.Amount, created_by |-> c1.CreatedBy,
                          timestamp |-> c1.CreatedAt]
            stored == [x \in DOMAIN contracts \cup {id} |->
                          IF x = id THEN c1 ELSE contracts[x]]
            r == AddBlock(chain, blockData, now)
        IN  IF ~r.ok
              THEN [ok |-> FALSE, Chain |-> r.chain, Contracts |-> stored, id |-> id]
              ELSE [ok |-> TRUE, Chain |-> r.chain,
                    Contracts |-> [stored EXCEPT
                        ![id] = SetLastBlockHash(c1, getLatestBlock(r.chain).Hash)],
                    id |-> id]

\* ValidateStepChecks asking only for a step of the pipeline, not for the
\* current one; C1 tells it from ValidateStepChecks
ValidateStepChecksAnyStep(contracts, contractID, stepNumber) ==
    /\ contractID \in DOMAIN contracts
    /\ stepNumber \in 1..Len(contracts[contractID].ValidationSteps)

\* WorkflowManager.ValidateStep, the checks before any write
ValidateStepChecks(contracts, contractID, stepNumber) ==
    /\ contractID \in DOMAIN contracts
    /\ stepNumber = contracts[contractID].CurrentStep
    /\ ~(stepNumber > Len(contracts[contractID].ValidationSteps))

\* ValidateStepUpdate moving to the next step on a rejection as well; C35
\* tells it from ValidateStepUpdate
ValidateStepUpdateAlwaysAdvancing(contract, stepNumber, validatorID, validatorName, role, approved, comments, now) ==
    LET c0 == [contract EXCEPT
                 !.ValidationSteps[stepNumber].ValidatorID = validatorID,
                 !.ValidationSteps[stepNumber].ValidatorName = validatorName,
                 !.ValidationSteps[stepNumber].Timestamp = now,
                 !.ValidationSteps[stepNumber].Comments = comments,
                 !.CurrentStep = @ + 1]
        c1 == IF approved
                THEN addAuditEntry(
                       [c0 EXCEPT !.ValidationSteps[stepNumber].Status = ValidationApproved,
                                  !.Status = getStatusForStep(c0.CurrentStep)],
                       "STEP_APPROVED", validatorID, role,
                       <<"Paso aprobado", stepNumber, comments>>, now)
                ELSE addAuditEntry(
                       [c0 EXCEPT !.ValidationSteps[stepNumber].Status = ValidationRejected,
                                  !.Status = StatusRejected],
                       "STEP_REJECTED", validatorID, role,
                       <<"Paso rechazado", stepNumber, comments>>, now)
    IN  [c1 EXCEPT !.UpdatedAt = now]

\* WorkflowManager.ValidateStep, the writes to the contract (lines 945-964)
ValidateStepUpdate(contract, stepNumber, validatorID, validatorName, role, approved, comments, now) ==
    LET c0 == [contract EXCEPT
                 !.ValidationSteps[stepNumber].ValidatorID = validatorID,
                 !.ValidationSteps[stepNumber].ValidatorName = validatorName,
                 !.ValidationSteps[stepNumber].Timestamp = now,
                 !.ValidationSteps[stepNumber].Comments = comments]
        c1 == IF approved
                THEN addAuditEntry(
                       [c0 EXCEPT !.ValidationSteps[stepNumber].Status = ValidationApproved,
                                  !.CurrentStep = @ + 1,
                                  !.Status = getStatusForStep(c0.CurrentStep + 1)],
                       "STEP_APPROVED", validatorID, role,
                       <<"Paso aprobado", stepNumber, comments>>, now)
                ELSE addAuditEntry(
                       [c0 EXCEPT !.ValidationSteps[stepNumber].Status = ValidationRejected,
                                  !.Status = StatusRejected],
                       "STEP_REJECTED", validatorID, role,
                       <<"Paso rechazado", stepNumber, comments>>, now)
    IN  [c1 EXCEPT !.UpdatedAt = now]

\* the VALIDATION block payload of ValidateStep
ValidationBlockData(contractID, stepNumber, validatorID, role, approved, comments, now) ==
    [type |-> "VALIDATION", contract_id |-> contractID, step |-> stepNumber,
     validator |-> validatorID, role |-> role, approved |-> approved,
     comments |-> comments, timestamp |-> now]

\* ValidateStep refusing a caller whose role is not the one bound to the
\* step; C37 tells it from ValidateStepResult
ValidateStepResultRoleGated(chain, contracts, contractID, stepNumber, validatorID, validatorName, role, approved, comments, now) ==
    IF \/ ~ValidateStepChecks(contracts, contractID, stepNumber)
       \/ role # contracts[contractID].ValidationSteps[stepNumber].Role
      THEN [ok |-> FALSE, Chain |-> chain, Contracts |-> contracts]
      ELSE
        LET c1 == ValidateStepUpdate(contracts[contractID], stepNumber, validatorID,
                                     validatorName, role, approved, comments, now)
            r == AddBlock(chain, ValidationBlockData(contractID, stepNumber,
                              validatorID, role, approved, comments, now), now)
        IN  [ok |-> TRUE, Chain |-> r.chain,
             Contracts |-> [contracts EXCEPT
                 ![contractID] = SetLastBlockHash(c1, r.block.Hash)]]

\* WorkflowManager.ValidateStep: [ok, Chain, Contracts]
ValidateStepResult(chain, contracts, contractID, stepNumber, validatorID, validatorName, role, approved, comments, now) ==
    IF ~ValidateStepChecks(contracts, contractID, stepNumber)
      THEN [ok |-> FALSE, Chain |-> chain, Contracts |-> contracts]
      ELSE
        LET c1 == ValidateStepUpdate(contracts[contractID], stepNumber, validatorID,
                                     validatorName, role, approved, comments, now)
            r == AddBlock(chain, ValidationBlockData(contractID, stepNumber,
                              validatorID, role, approved, comments, now), now)
        IN  IF ~r.ok
              THEN [ok |-> FALSE, Chain |-> r.chain,
                    Contracts |-> [contracts EXCEPT ![contractID] = c1]]
              ELSE [ok |-> TRUE, Chain |-> r.chain,
                    Contracts |-> [contracts EXCEPT
                        ![contractID] = SetLastBlockHash(c1, r.block.Hash)]]

\* WorkflowManager.AddAuditObservation: the role check
IsControlRole(role) ==
    ~(role # RoleComptroller /\ role # RoleProsecutor /\ role # RoleCitizen)

\* the AUDIT_OBSERVATION block payload of AddAuditObservation
AuditObservationBlockData(contractID, auditorID, role, observation, now) ==
    [type |-> "AUDIT_OBSERVATION", contract_id |-> contractID,
     auditor |-> auditorID, role |-> role,
     observation |-> observation, timestamp |-> now]

\* AddAuditObservation with the entry written before the role is checked; C5
\* tells it from AddAuditObservationResult
AddAuditObservationWriteFirst(chain, contracts, contractID, auditorID, role, observation, now) ==
    IF contractID \notin DOMAIN contracts
      THEN [ok |-> FALSE, Chain |-> chain, Contracts |-> contracts]
      ELSE
        LET c1 == addAuditEntry(contracts[contractID], "AUDIT_OBSERVATION",
                                auditorID, role, <<observation>>, now)
            r == AddBlock(chain, AuditObservationBlockData(contractID, auditorID,
                              role, observation, now), now)
        IN  IF ~IsControlRole(role) \/ ~r.ok
              THEN [ok |-> FALSE, Chain |-> chain,
                    Contracts |-> [contracts EXCEPT ![contractID] = c1]]
              ELSE [ok |-> TRUE, Chain |-> r.chain,
                    Contracts |-> [contracts EXCEPT
                        ![contractID] = SetLastBlockHash(c1, r.block.Hash)]]

\* WorkflowManager.AddAuditObservation: [ok, Chain, Contracts]
AddAuditObservationResult(chain, contracts, contractID, auditorID, role, observation, now) ==
    IF contractID \notin DOMAIN contracts
      THEN [ok |-> FALSE, Chain |-> chain, Contracts |-> contracts]
    ELSE IF ~IsControlRole(role)
      THEN [ok |-> FALSE, Chain |-> chain, Contracts |-> contracts]
    ELSE
        LET c1 == addAuditEntry(contracts[contractID], "AUDIT_OBSERVATION",
                                auditorID, role, <<observation>>, now)
            r == AddBlock(chain, AuditObservationBlockData(contractID, auditorID,
                              role, observation, now), now)
        IN  IF ~r.ok
              THEN [ok |-> FALSE, Chain |-> r.chain,
                    Contracts |-> [contracts EXCEPT ![contractID] = c1]]
              ELSE [ok |-> TRUE, Chain |-> r.chain,
                    Contracts |-> [contracts EXCEPT
                        ![contractID] = SetLastBlockHash(c1, r.block.Hash)]]

\* Blockchain.ValidateContract (node-level validation): [ok, Chain, Contracts]
ValidateContractResult(chain, contracts, contractID, nodeID, approved, reason, now) ==
    IF contractID \notin DOMAIN contracts
      THEN [ok |-> FALSE, Chain |-> chain, Contracts |-> contracts]
      ELSE
        LET validationData == [type |-> "VALIDATION", contract_id |-> contractID,
                               node_id |-> nodeID, approved |-> approved,
                               reason |-> reason, timestamp |-> now]
            cs == IF approved THEN contracts
                  ELSE [contracts EXCEPT ![contractID].Status = StatusRejected]
            r == AddBlock(chain, validationData, now)
        IN  [ok |-> r.ok, Chain |-> r.chain, Contracts |-> cs]


(***************************************************************************)
(* Replication (P2PNetwork, P2PHandler).                                   *)
(***************************************************************************)
\* fmt.Sprintf("%v", block.Data): Go prints a map as map[k:v ...]
SprintfV(data) == [open |-> "map[", entries |-> data, close |-> "]"]

\* json.Unmarshal of a text into a Contract: only a text that opens a JSON
\* object decodes; anything else is a syntax error
JSONUnmarshalContract(text) ==
    IF text.open = "{"
      THEN [err |-> FALSE, ID |-> IF "id" \in DOMAIN text.entries
                                    THEN text.entries.id ELSE ""]
      ELSE [err |-> TRUE, ID |-> ""]

\* P2PNetwork.rebuildContractsFromChain: the ids decoded from the first n blocks
RECURSIVE RebuiltIDs(_, _)
RebuiltIDs(chain, n) ==
    IF n = 0 THEN {}
    ELSE LET d == JSONUnmarshalContract(SprintfV(chain[n].Data))
         IN  RebuiltIDs(chain, n - 1) \cup
             (IF chain[n].Type = "CONTRACT_CREATION" /\ ~d.err THEN {d.ID} ELSE {})

\* P2PNetwork.rebuildContractsFromChain: a decoded contract carries only its
\* id; every field the text does not give keeps its zero value
rebuildContractsFromChain(chain) ==
    [id \in RebuiltIDs(chain, Len(chain)) |->
        [ID |-> id, EntityCode |-> "", EntityName |-> "", Description |-> "",
         Amount |-> 0, CreatedBy |-> "", Status |-> "", CurrentStep |-> 0,
         ValidationSteps |-> <<>>, AuditTrail |-> <<>>,
         CreatedAt |-> ZeroTime, UpdatedAt |-> ZeroTime]]

\* SyncLoop taking any longer chain without IsValidChain; C15 tells it from
\* SyncLoop
RECURSIVE SyncLoopUnchecked(_, _, _, _)
SyncLoopUnchecked(chain, contracts, answers, i) ==
    IF i > Len(answers) THEN [Chain |-> chain, Contracts |-> contracts]
    ELSE IF answers[i].err THEN SyncLoopUnchecked(chain, contracts, answers, i + 1)
    ELSE IF Len(answers[i].chain) > Len(chain)
      THEN SyncLoopUnchecked(answers[i].chain, rebuildContractsFromChain(answers[i].chain),
                             answers, i + 1)
      ELSE SyncLoopUnchecked(chain, contracts, answers, i + 1)

\* SyncLoop taking every valid chain that is offered, longer or not; C39
\* tells it from SyncLoop
RECURSIVE SyncLoopAnyLength(_, _, _, _)
SyncLoopAnyLength(chain, contracts, answers, i) ==
    IF i > Len(answers) THEN [Chain |-> chain, Contracts |-> contracts]
    ELSE IF answers[i].err THEN SyncLoopAnyLength(chain, contracts, answers, i + 1)
    ELSE IF IsValidChain(answers[i].chain)
      THEN SyncLoopAnyLength(answers[i].chain, rebuildContractsFromChain(answers[i].chain),
                             answers, i + 1)
      ELSE SyncLoopAnyLength(chain, contracts, answers, i + 1)

\* P2PNetwork.SyncWithPeers: the loop over the answers of the active peers,
\* answers[i] being what requestChainFromPeer returned for the i-th peer
\* visited: [Chain, Contracts]
RECURSIVE SyncLoop(_, _, _, _)
SyncLoop(chain, contracts, answers, i) ==
    IF i > Len(answers) THEN [Chain |-> chain, Contracts |-> contracts]
    ELSE IF answers[i].err THEN SyncLoop(chain, contracts, answers, i + 1)
    ELSE IF Len(answers[i].chain) > Len(chain) /\ IsValidChain(answers[i].chain)
      THEN SyncLoop(answers[i].chain, rebuildContractsFromChain(answers[i].chain),
                    answers, i + 1)
      ELSE SyncLoop(chain, contracts, answers, i + 1)

\* P2PNetwork.ReceiveBlock: the payload under which a received block is re-added
WrapReceived(block) ==
    [type |-> block.Type, data |-> block.Data, timestamp |-> block.Timestamp,
     previous_hash |-> block.PreviousHash, nonce |-> block.Nonce]

\* ReceiveBlock appending the received block as it came, with the index
\* and the previous_hash it declares; C38 tells it from ReceiveBlockResult
ReceiveBlockResultAsReceived(chain, block, now) ==
    IF ~IsValidBlock(chain, block) THEN [ok |-> FALSE, chain |-> chain]
    ELSE IF HasBlock(chain, block.Hash) THEN [ok |-> TRUE, chain |-> chain]
    ELSE [ok |-> TRUE, chain |-> Append(chain, block)]

\* P2PNetwork.ReceiveBlock: [ok, chain]
ReceiveBlockResult(chain, block, now) ==
    IF ~IsValidBlock(chain, block) THEN [ok |-> FALSE, chain |-> chain]
    ELSE IF HasBlock(chain, block.Hash) THEN [ok |-> TRUE, chain |-> chain]
    ELSE LET r == AddBlock(chain, WrapReceived(block), now)
         IN  [ok |-> r.ok, chain |-> r.chain]

\* P2PHandler.ReceiveBlock (POST /api/p2p/receive-block): [ok, chain]
HandlerReceiveBlockResult(chain, block, now) ==
    IF ~IsValidBlock(chain, block) THEN [ok |-> FALSE, chain |-> chain]
    ELSE IF HasBlock(chain, block.Hash) THEN [ok |-> TRUE, chain |-> chain]
    ELSE LET r == AddBlock(chain, block.Data, now)
         IN  [ok |-> r.ok, chain |-> r.chain]


(***************************************************************************)
(* The inputs the environment may offer.                                   *)
(***************************************************************************)
\* ids a client names; UUIDs are the ids uuid.New() may return
ClientIDs == {"c1"}
UUIDs == {"u1"}
AllIDs == ClientIDs \cup UUIDs

\* a contract as bound from the request body of POST /api/contracts
ContractInput(id, code, name, desc, amount, by, trail) ==
    [ID |-> id, EntityCode |-> code, EntityName |-> name, Description |-> desc,
     Amount |-> amount, CreatedBy |-> by, Status |-> "", CurrentStep |-> 0,
     ValidationSteps |-> <<>>, AuditTrail |-> trail,
     CreatedAt |-> ZeroTime, UpdatedAt |-> ZeroTime]

ClientEntry ==
    [Action |-> "CLIENT_SUPPLIED", UserID |-> "x", UserRole |-> RoleCitizen,
     Timestamp |-> StartTime, Description |-> <<"from the request body">>,
     BlockHash |-> EmptyHash]

ValidInputs ==
    { ContractInput("", "E1", "Entity", "d", 1000, "dev", <<>>),
      ContractInput("c1", "E1", "Entity", "d", 1000, "dev", <<>>),
      ContractInput("c1", "E1", "Entity", "d", 1000, "dev", <<ClientEntry>>) }

InvalidInputs ==
    { ContractInput("c1", "", "Entity", "d", 1000, "dev", <<>>),
      ContractInput("c1", "E1", "", "d", 1000, "dev", <<>>),
      ContractInput("c1", "E1", "Entity", "", 1000, "dev", <<>>),
      ContractInput("c1", "E1", "Entity", "d", 0, "dev", <<>>),
      ContractInput("c1", "E1", "Entity", "d", 1000, "", <<>>) }

StepNumbers == 0..(NumSteps + 1)

\* the role a caller may pass for a step: the one bound to it, or another
CallerRoles(stepNumber) ==
    {RoleCitizen} \cup
    (IF stepNumber \in 1..NumSteps THEN {GetWorkflowSteps[stepNumber].Role} ELSE {})

AuditRoles == {RoleComptroller, RoleProjectDeveloper}

\* the payload of the blocks a peer builds
PeerData ==
    [type |-> "CONTRACT_CREATION", contract_id |-> "c1", entity_code |-> "E1",
     entity_name |-> "Entity", amount |-> 1000, created_by |-> "peer",
     timestamp |-> StartTime]

\* the hash of some block the node does not hold
ForeignHash == calculateHash(NewBlock([message |-> "foreign"], EmptyHash, StartTime))

Rehash(b) == [b EXCEPT !.Hash = calculateHash(b)]

\* blocks a peer may push: the successor of the local chain as a peer holding
\* the same chain builds it, now or earlier, variants of it, and a block the
\* node already holds
PushedBlocks(chain, now) ==
    LET good == BuildBlock(chain, PeerData, now)
    IN  { good,
          BuildBlock(chain, PeerData, StartTime),
          Rehash([good EXCEPT !.Index = 0, !.PreviousHash = ForeignHash]),
          Rehash([good EXCEPT !.PreviousHash = ForeignHash]),
          Rehash([good EXCEPT !.Data = <<>>]),
          [good EXCEPT !.Data = [message |-> "tampered"]],
          [good EXCEPT !.Hash = EmptyHash],
          chain[1] }

\* the longest chain the bounds allow
MaxLen == NumSteps + 2 + (MaxCalls + 1) * MaxAhead

\* HonestChains[n]: the chain of n blocks a peer builds with NewBlockchain
\* and n-1 AddBlock calls
RECURSIVE HonestChain(_)
HonestChain(n) ==
    IF n = 1 THEN <<GenesisBlock(StartTime)>>
    ELSE AddBlock(HonestChain(n - 1), PeerData, StartTime).chain

HonestChains == [n \in 1..MaxLen |-> HonestChain(n)]

\* re-link and re-hash the blocks after position pos
RECURSIVE Relink(_, _)
Relink(chain, pos) ==
    IF pos >= Len(chain) THEN chain
    ELSE Relink([chain EXCEPT ![pos + 1] =
                    Rehash([chain[pos + 1] EXCEPT !.PreviousHash = chain[pos].Hash])],
                pos + 1)

Flaws == {"none", "stale_data", "reindexed", "rooted", "broken_link", "empty_hash"}

\* a chain as a peer may serve it: honest, or with one block changed:
\*   stale_data   the payload of block pos changed, its hash left as it was
\*   reindexed    the index of block pos changed, hashes and links redone
\*   rooted       the first block given a previous hash, hashes and links redone
\*   broken_link  the previous hash of block pos changed
\*   empty_hash   the hash of block pos emptied
Tampered(chain, flaw, pos) ==
    CASE flaw = "none" -> chain
      [] flaw = "stale_data" -> [chain EXCEPT ![pos].Data = [message |-> "tampered"]]
      [] flaw = "reindexed" ->
            Relink([chain EXCEPT ![pos] = Rehash([@ EXCEPT !.Index = @ + 1])], pos)
      [] flaw = "rooted" ->
            Relink([chain EXCEPT ![1] = Rehash([@ EXCEPT !.PreviousHash = ForeignHash])], 1)
      [] flaw = "broken_link" ->
            [chain EXCEPT ![pos] = Rehash([@ EXCEPT !.PreviousHash = ForeignHash])]
      [] flaw = "empty_hash" -> [chain EXCEPT ![pos].Hash = EmptyHash]

\* CandidatesOfLen[n]: the candidate chains of length n, honest or with one flaw
CandidatesOfLen ==
    [n \in 1..MaxLen |-> { Tampered(HonestChains[n], f, n) : f \in Flaws }]

\* candidates offered to a node whose chain has length len: an honest chain
\* one block shorter and one as long, and every candidate that is longer by
\* up to MaxAhead blocks
Candidates(len) ==
    { HonestChains[n] : n \in {m \in {len - 1, len} : m >= 1} } \cup
    UNION { CandidatesOfLen[n] : n \in (len + 1)..(len + MaxAhead) }


(***************************************************************************)
(* The node as a state machine: one action per operation.                  *)
(***************************************************************************)
NoContracts == [x \in {} |-> 0]

Procs == {"r1", "r2"}

\* the record kept of a call: operation, contract id, result and, for a call
\* that succeeded, the step and the decision
Call(op, cid, step, approved, ok) ==
    [op |-> op, cid |-> cid, step |-> IF ok THEN step ELSE 0,
     approved |-> ok /\ approved, ok |-> ok]

\* the peer map of a node that added p1 and p2 and then lost p2 on a failed push
InitialPeers ==
    [p \in {"p1", "p2"} |->
        [ID |-> p, Address |-> "10.0.0.1", Port |-> "8080", LastSeen |-> StartTime,
         Active |-> (p = "p1")]]

\* the ids of the active peers, in the order SyncWithPeers visits them
RECURSIVE SeqOfSet(_)
SeqOfSet(S) ==
    IF S = {} THEN <<>>
    ELSE LET x == CHOOSE y \in S : TRUE IN <<x>> \o SeqOfSet(S \ {x})

ActivePeerIDs(peers) == SeqOfSet({p \in DOMAIN peers : peers[p].Active})

\* a node after NewBlockchain (k = 0), after one AddContract (k = 1) and after
\* the steps 1..k-1 of that contract were approved in turn (k > 1)
RECURSIVE Warm(_)
Warm(k) ==
    IF k = 0 THEN [ok |-> TRUE, Chain |-> <<GenesisBlock(StartTime)>>, Contracts |-> NoContracts]
    ELSE IF k = 1
      THEN AddContractResult(Warm(0).Chain, Warm(0).Contracts,
                             ContractInput("c1", "E1", "Entity", "d", 1000, "dev", <<>>),
                             "u1", StartTime)
      ELSE ValidateStepResult(Warm(k - 1).Chain, Warm(k - 1).Contracts, "c1", k - 1,
                              "v1", "V One", GetWorkflowSteps[k - 1].Role, TRUE, "ok", StartTime)

WarmStates == [k \in 0..(NumSteps + 1) |-> Warm(k)]

Init ==
    \E k \in 0..(NumSteps + 1) :
        /\ Chain = WarmStates[k].Chain
        /\ Contracts = WarmStates[k].Contracts
        /\ base = Len(WarmStates[k].Chain)
        /\ calls = 0
        /\ approvals = [c \in AllIDs |->
                           IF c = "c1" /\ k > 1 THEN [i \in 1..(k - 1) |-> i] ELSE <<>>]
        /\ Peers = InitialPeers
        /\ last = Call("none", "", 0, FALSE, TRUE)
        /\ pre = [Chain |-> WarmStates[k].Chain, Contracts |-> WarmStates[k].Contracts]
        /\ pc = [p \in Procs |-> "idle"]
        /\ loc = [p \in Procs |-> Call("none", "", 0, FALSE, TRUE)]
        /\ args = <<>>
        /\ nodes = <<>>
        /\ push = <<>>

\* another call may be made within the bound
Room == calls < MaxCalls

Idle == \A p \in Procs : pc[p] = "idle"

\* Blockchain.AddContract
AddContract ==
    /\ Room /\ Idle
    /\ \E c \in ValidInputs \cup InvalidInputs :
       \E uuid \in (IF c.ID = "" THEN UUIDs \ DOMAIN Contracts ELSE {""}) :
          LET r == AddContractResult(Chain, Contracts, c, uuid, Now)
          IN  /\ Chain' = r.Chain
              /\ Contracts' = r.Contracts
              /\ last' = Call("AddContract", r.id, 0, FALSE, r.ok)
              /\ approvals' = IF r.id \in DOMAIN r.Contracts /\ validateContract(c)
                                THEN [approvals EXCEPT ![r.id] = <<>>]
                                ELSE approvals
    /\ calls' = calls + 1
    /\ pre' = [Chain |-> Chain, Contracts |-> Contracts]
    /\ UNCHANGED <<Peers, base, pc, loc, args, nodes, push>>

\* WorkflowManager.ValidateStep; the decision and the role are read only after
\* the checks of lines 929-942, so a call that fails them is offered once
ValidateStep ==
    /\ Room /\ Idle
    /\ \E cid \in AllIDs, n \in StepNumbers :
       \E approved \in (IF ValidateStepChecks(Contracts, cid, n) THEN BOOLEAN ELSE {FALSE}) :
       \E role \in (IF ValidateStepChecks(Contracts, cid, n) THEN CallerRoles(n)
                                                              ELSE {RoleCitizen}) :
          LET r == ValidateStepResult(Chain, Contracts, cid, n, "v1", "V One",
                                      role, approved, "ok", Now)
          IN  /\ Chain' = r.Chain
              /\ Contracts' = r.Contracts
              /\ last' = Call("ValidateStep", cid, n, approved, r.ok)
              /\ approvals' = IF r.ok /\ approved
                                THEN [approvals EXCEPT ![cid] = Append(@, n)]
                                ELSE approvals
    /\ calls' = calls + 1
    /\ pre' = [Chain |-> Chain, Contracts |-> Contracts]
    /\ UNCHANGED <<Peers, base, pc, loc, args, nodes, push>>

\* WorkflowManager.AddAuditObservation
AddAuditObservation ==
    /\ Room /\ Idle
    /\ \E cid \in AllIDs, role \in AuditRoles :
          LET r == AddAuditObservationResult(Chain, Contracts, cid, "a1", role,
                                             "obs", Now)
          IN  /\ Chain' = r.Chain
              /\ Contracts' = r.Contracts
              /\ last' = Call("AddAuditObservation", cid, 0, FALSE, r.ok)
    /\ calls' = calls + 1
    /\ pre' = [Chain |-> Chain, Contracts |-> Contracts]
    /\ UNCHANGED <<Peers, base, approvals, pc, loc, args, nodes, push>>

\* Blockchain.ValidateContract
ValidateContract ==
    /\ Room /\ Idle
    /\ \E cid \in AllIDs, approved \in BOOLEAN :
          LET r == ValidateContractResult(Chain, Contracts, cid, "node", approved,
                                          "why", Now)
          IN  /\ Chain' = r.Chain
              /\ Contracts' = r.Contracts
              /\ last' = Call("ValidateContract", cid, 0, approved, r.ok)
    /\ calls' = calls + 1
    /\ pre' = [Chain |-> Chain, Contracts |-> Contracts]
    /\ UNCHANGED <<Peers, base, approvals, pc, loc, args, nodes, push>>

\* P2PNetwork.ReceiveBlock
ReceiveBlock ==
    /\ Room /\ Idle
    /\ \E block \in PushedBlocks(Chain, Now) :
          LET r == ReceiveBlockResult(Chain, block, Now)
          IN  /\ Chain' = r.chain
              /\ last' = Call("ReceiveBlock", "", 0, FALSE, r.ok)
    /\ calls' = calls + 1
    /\ pre' = [Chain |-> Chain, Contracts |-> Contracts]
    /\ UNCHANGED <<Contracts, Peers, base, approvals, pc, loc, args, nodes, push>>

\* P2PHandler.ReceiveBlock
HandlerReceiveBlock ==
    /\ Room /\ Idle
    /\ \E block \in PushedBlocks(Chain, Now) :
          LET r == HandlerReceiveBlockResult(Chain, block, Now)
          IN  /\ Chain' = r.chain
              /\ last' = Call("HandlerReceiveBlock", "", 0, FALSE, r.ok)
    /\ calls' = calls + 1
    /\ pre' = [Chain |-> Chain, Contracts |-> Contracts]
    /\ UNCHANGED <<Contracts, Peers, base, approvals, pc, loc, args, nodes, push>>

\* Blockchain.ReplaceChain
ReplaceChain ==
    /\ Room /\ Idle
    /\ \E newChain \in Candidates(Len(Chain)) :
          LET r == ReplaceChainResult(Chain, newChain)
          IN  /\ Chain' = r.chain
              /\ last' = Call("ReplaceChain", "", 0, FALSE, r.ok)
    /\ calls' = calls + 1
    /\ pre' = [Chain |-> Chain, Contracts |-> Contracts]
    /\ UNCHANGED <<Contracts, Peers, base, approvals, pc, loc, args, nodes, push>>

\* what requestChainFromPeer may return: an error or a chain
Answers(len) ==
    {[err |-> TRUE, chain |-> <<>>]} \cup
    {[err |-> FALSE, chain |-> c] : c \in Candidates(len)}

\* P2PNetwork.SyncWithPeers; Go visits the peer map in any order, which the
\* free choice of each peer's answer covers
SyncWithPeers ==
    /\ Room /\ Idle
    /\ LET ids == ActivePeerIDs(Peers)
       IN  \E answers \in [1..Len(ids) -> Answers(Len(Chain))] :
              LET r == SyncLoop(Chain, Contracts, answers, 1)
              IN  /\ Chain' = r.Chain
                  /\ Contracts' = r.Contracts
                  /\ approvals' = IF r.Chain # Chain
                                    THEN [c \in AllIDs |-> <<>>] ELSE approvals
                  /\ last' = Call("SyncWithPeers", "", 0, FALSE, TRUE)
    /\ calls' = calls + 1
    /\ pre' = [Chain |-> Chain, Contracts |-> Contracts]
    /\ UNCHANGED <<Peers, base, pc, loc, args, nodes, push>>

Next ==
    \/ AddContract
    \/ ValidateStep
    \/ AddAuditObservation
    \/ ValidateContract
    \/ ReceiveBlock
    \/ HandlerReceiveBlock
    \/ ReplaceChain
    \/ SyncWithPeers

Spec == Init /\ [][Next]_vars


(***************************************************************************)
(* Properties of the sequential node (Spec).  After a call, last is the    *)
(* call and what it returned, pre the ledger and the projection before it, *)
(* Chain and Contracts what it left.                                       *)
(***************************************************************************)
\* the steps approved so far are 1, 2, ..., k for some k <= NumSteps
InPipelineOrder(steps) ==
    /\ Len(steps) <= NumSteps
    /\ \A i \in 1..Len(steps) : steps[i] = i

HasRejectedStep(contract) ==
    \E i \in 1..Len(contract.ValidationSteps) :
        contract.ValidationSteps[i].Status = "REJECTED"

\* C2: once a ValidateStep with approved = false has succeeded on a contract,
\* the contract stays Rejected and every later ValidateStep on it fails and
\* changes nothing.
C2_RejectedIsTerminal ==
    (/\ last.op = "ValidateStep"
     /\ last.cid \in DOMAIN pre.Contracts
     /\ HasRejectedStep(pre.Contracts[last.cid]))
    => /\ ~last.ok
       /\ Chain = pre.Chain /\ Contracts = pre.Contracts
       /\ Contracts[last.cid].Status = "REJECTED"

\* the state bound to each value of current_step, as the workflow table gives it
StateBoundTo ==
    << "DRAFT", "TECHNICAL_REVIEW", "LEGAL_REVIEW", "CONTRACTS_REVIEW",
       "ADMIN_REVIEW", "BUDGET_REVIEW", "AUTHORIZED_FOR_PUBLICATION" >>

\* C3: a successful approval of step n sets current_step to n+1, the status to
\* the state bound to n+1, and marks validation step n Approved.
C3_ApprovalAdvances ==
    (last.op = "ValidateStep" /\ last.ok /\ last.approved) =>
        LET n == last.step
            c == Contracts[last.cid]
        IN  /\ n \in 1..NumSteps
            /\ c.CurrentStep = n + 1
            /\ c.Status = StateBoundTo[n + 1]
            /\ c.ValidationSteps[n].Status = "APPROVED"

\* C3 witness: step 6 was approved and the contract is authorized for publication
C3_Witness ==
    /\ last.op = "ValidateStep" /\ last.ok /\ last.approved /\ last.step = 6
    /\ pre.Contracts[last.cid].CurrentStep = 6
    /\ Contracts[last.cid].CurrentStep = 7
    /\ Contracts[last.cid].Status = "AUTHORIZED_FOR_PUBLICATION"

\* C5: a ValidateStep or AddAuditObservation call that returns an error leaves
\* the contract projection and the chain exactly as they were.
C5_ErrorsHaveNoEffect ==
    (last.op \in {"ValidateStep", "AddAuditObservation"} /\ ~last.ok) =>
        (Chain = pre.Chain /\ Contracts = pre.Contracts)

\* C5 witness: a ValidateStep failed on an existing contract that an earlier
\* call of the run had changed
C5_Witness ==
    /\ last.op = "ValidateStep" /\ ~last.ok
    /\ last.cid \in DOMAIN Contracts
    /\ calls = 2
    /\ Len(Chain) > base

\* C6: each block after the first is linked to its predecessor.
C6_Linked ==
    \A i \in 2..Len(Chain) : Chain[i].PreviousHash = Chain[i-1].Hash

\* C6 witness: a candidate chain was adopted and a block was appended to it
C6_Witness ==
    /\ last.op \in {"AddContract", "ValidateContract"} /\ last.ok
    /\ pre.Chain \in CandidatesOfLen[base + 1]
    /\ Len(Chain) = base + 2

\* C7: every block's stored hash equals the hash recomputed from its index,
\* timestamp, payload, previous_hash, nonce and type.
C7_HashesMatch ==
    \A i \in 1..Len(Chain) : Chain[i].Hash = calculateHash(Chain[i])

\* C8: the block at position i of the chain has index i.
C8_IndexIsPosition ==
    \A i \in 1..Len(Chain) : Chain[i].Index = i - 1

AppendingOps ==
    {"AddContract", "ValidateStep", "AddAuditObservation", "ValidateContract",
     "ReceiveBlock", "HandlerReceiveBlock"}

\* after is before with exactly one block added last, carrying the previous
\* length as index and the previous last hash as previous_hash
OneBlockAppended(before, after) ==
    /\ Len(after) = Len(before) + 1
    /\ SubSeq(after, 1, Len(before)) = before
    /\ after[Len(after)].Index = Len(before)
    /\ after[Len(after)].PreviousHash = before[Len(before)].Hash

\* C9: an operation that appends either adds exactly one block, last, with
\* index = previous length and previous_hash = previous last hash, leaving
\* the earlier blocks alone, or leaves the chain unchanged; the chain is
\* unchanged when the operation fails and grows when a workflow write succeeds.
C9_AppendAllOrNothing ==
    last.op \in AppendingOps =>
        /\ (Chain = pre.Chain \/ OneBlockAppended(pre.Chain, Chain))
        /\ ~last.ok => Chain = pre.Chain
        /\ (last.ok /\ last.op \notin {"ReceiveBlock", "HandlerReceiveBlock"})
              => OneBlockAppended(pre.Chain, Chain)

\* C9 witness: a received block was appended on top of an earlier append
C9_Witness ==
    /\ last.op = "HandlerReceiveBlock" /\ last.ok
    /\ Len(pre.Chain) = base + 1
    /\ Len(Chain) = base + 2
    /\ Chain[Len(Chain)].Data = PeerData
    /\ Chain[Len(Chain)].Index = base + 1


(***************************************************************************)
(* Overlapping requests.  gin serves each request on its own goroutine and *)
(* neither Blockchain nor WorkflowManager holds a lock, so the statements  *)
(* of two handlers interleave.  Each of the two requests r1, r2 runs one   *)
(* workflow call on contract c1, one group of statements at a time.        *)
(***************************************************************************)
\* a request in flight: its arguments, the payload and the block AddBlock
\* builds for it, the chain as append read it, and its result
Request(op, cid, step, approved, role) ==
    [op |-> op, cid |-> cid, step |-> step, approved |-> approved, role |-> role,
     ok |-> FALSE, data |-> <<>>, block |-> <<>>, seen |-> <<>>]

\* the request returns and its locals go out of scope
Return(req, ok) ==
    [req EXCEPT !.ok = ok, !.data = <<>>, !.block = <<>>, !.seen = <<>>]

\* ValidateStep, lines 929-942: look the contract up and check the step
VS_Begin(p) ==
    /\ pc[p] = "idle"
    /\ \E n \in 1..NumSteps, approved \in BOOLEAN :
          LET req == Request("ValidateStep", "c1", n, approved, GetWorkflowSteps[n].Role)
          IN  IF ValidateStepChecks(Contracts, "c1", n)
                THEN /\ loc' = [loc EXCEPT ![p] = req]
                     /\ pc' = [pc EXCEPT ![p] = "update"]
                ELSE /\ loc' = [loc EXCEPT ![p] = Return(req, FALSE)]
                     /\ pc' = [pc EXCEPT ![p] = "done"]
    /\ UNCHANGED <<Chain, Contracts, Peers, base, calls, last, pre, approvals, args, nodes, push>>

\* ValidateStep, lines 945-976: write the step, the counter, the status and
\* the audit entry through the shared *Contract, and build the payload
VS_Update(p) ==
    /\ pc[p] = "update" /\ loc[p].op = "ValidateStep"
    /\ LET r == loc[p]
       IN  /\ Contracts' = [Contracts EXCEPT ![r.cid] =
                   ValidateStepUpdate(@, r.step, "v1", "V One", r.role,
                                      r.approved, "ok", Now)]
           /\ loc' = [loc EXCEPT ![p].data =
                   ValidationBlockData(r.cid, r.step, "v1", r.role, r.approved,
                                       "ok", Now)]
           /\ approvals' = IF r.approved
                             THEN [approvals EXCEPT ![r.cid] = Append(@, r.step)]
                             ELSE approvals
    /\ pc' = [pc EXCEPT ![p] = "build"]
    /\ UNCHANGED <<Chain, Peers, base, calls, last, pre, args, nodes, push>>

\* AddAuditObservation, lines 1014-1022: look the contract up, check the role
AO_Begin(p) ==
    /\ pc[p] = "idle"
    /\ \E role \in AuditRoles :
          LET req == Request("AddAuditObservation", "c1", 0, FALSE, role)
          IN  IF "c1" \in DOMAIN Contracts /\ IsControlRole(role)
                THEN /\ loc' = [loc EXCEPT ![p] = req]
                     /\ pc' = [pc EXCEPT ![p] = "update"]
                ELSE /\ loc' = [loc EXCEPT ![p] = Return(req, FALSE)]
                     /\ pc' = [pc EXCEPT ![p] = "done"]
    /\ UNCHANGED <<Chain, Contracts, Peers, base, calls, last, pre, approvals, args, nodes, push>>

\* AddAuditObservation, lines 1025-1045: append the entry, build the payload
AO_Update(p) ==
    /\ pc[p] = "update" /\ loc[p].op = "AddAuditObservation"
    /\ LET r == loc[p]
       IN  /\ Contracts' = [Contracts EXCEPT ![r.cid] =
                   addAuditEntry(@, "AUDIT_OBSERVATION", "a1", r.role, <<"obs">>, Now)]
           /\ loc' = [loc EXCEPT ![p].data =
                   AuditObservationBlockData(r.cid, "a1", r.role, "obs", Now)]
    /\ pc' = [pc EXCEPT ![p] = "build"]
    /\ UNCHANGED <<Chain, Peers, base, calls, last, pre, approvals, args, nodes, push>>

\* AddBlock, lines 260-270: read the latest block and the length, build the block
AB_Build(p) ==
    /\ pc[p] = "build"
    /\ loc' = [loc EXCEPT ![p].block = BuildBlock(Chain, loc[p].data, Now)]
    /\ pc' = [pc EXCEPT ![p] = "validate"]
    /\ UNCHANGED <<Chain, Contracts, Peers, base, calls, last, pre, approvals, args, nodes, push>>

\* AddBlock, lines 273-275: IsValidBlock against the chain as it is now
AB_Validate(p) ==
    /\ pc[p] = "validate"
    /\ IF IsValidBlock(Chain, loc[p].block)
         THEN /\ pc' = [pc EXCEPT ![p] = "append"]
              /\ loc' = loc
         ELSE /\ pc' = [pc EXCEPT ![p] = "done"]
              /\ loc' = [loc EXCEPT ![p] = Return(@, FALSE)]
    /\ UNCHANGED <<Chain, Contracts, Peers, base, calls, last, pre, approvals, args, nodes, push>>

\* AddBlock, line 278, first half: append reads the slice bc.Chain
AB_Append(p) ==
    /\ pc[p] = "append"
    /\ loc' = [loc EXCEPT ![p].seen = Chain]
    /\ pc' = [pc EXCEPT ![p] = "store"]
    /\ UNCHANGED <<Chain, Contracts, Peers, base, calls, last, pre, approvals, args, nodes, push>>

\* AddBlock, line 278, second half: the grown slice is stored in bc.Chain
AB_Store(p) ==
    /\ pc[p] = "store"
    /\ Chain' = Append(loc[p].seen, loc[p].block)
    /\ pc' = [pc EXCEPT ![p] = "backfill"]
    /\ UNCHANGED <<Contracts, Peers, base, calls, last, pre, approvals, loc, args, nodes, push>>

\* lines 985-989 and 1054-1056: the newest audit entry of the contract gets
\* the block's hash and the call returns nil
Backfill(p) ==
    /\ pc[p] = "backfill"
    /\ Contracts' = [Contracts EXCEPT ![loc[p].cid] =
                        SetLastBlockHash(@, loc[p].block.Hash)]
    /\ loc' = [loc EXCEPT ![p] = Return(@, TRUE)]
    /\ pc' = [pc EXCEPT ![p] = "done"]
    /\ UNCHANGED <<Chain, Peers, base, calls, last, pre, approvals, args, nodes, push>>

NextConc ==
    \E p \in Procs :
        \/ VS_Begin(p)
        \/ VS_Update(p)
        \/ AO_Begin(p)
        \/ AO_Update(p)
        \/ AB_Build(p)
        \/ AB_Validate(p)
        \/ AB_Append(p)
        \/ AB_Store(p)
        \/ Backfill(p)

SpecConc == Init /\ [][NextConc]_vars

(***************************************************************************)
(* Properties of overlapping requests (SpecConc).                          *)
(***************************************************************************)
AllDone == \A p \in Procs : pc[p] = "done"

\* the blocks of the chain recording a ValidateStep of step n on contract cid
ValidationBlocks(cid, n) ==
    { i \in 1..Len(Chain) :
        /\ Chain[i].Type = "VALIDATION"
        /\ "step" \in DOMAIN Chain[i].Data
        /\ Chain[i].Data.contract_id = cid
        /\ Chain[i].Data.step = n }

\* the audit entries of contract cid recording an approval of step n
ApprovalEntries(cid, n) ==
    { i \in 1..Len(Contracts[cid].AuditTrail) :
        /\ Contracts[cid].AuditTrail[i].Action = "STEP_APPROVED"
        /\ Contracts[cid].AuditTrail[i].Description[2] = n }

\* C4: of two overlapping ValidateStep calls approving the same step of the
\* same contract at most one succeeds, current_step advances by exactly one,
\* and one VALIDATION block and one audit entry are added for the step.
C4_ValidateStepAtomic ==
    (/\ AllDone
     /\ \A p \in Procs : loc[p].op = "ValidateStep" /\ loc[p].approved
     /\ loc["r1"].cid = loc["r2"].cid /\ loc["r1"].step = loc["r2"].step)
    => LET cid == loc["r1"].cid
           n == loc["r1"].step
       IN  /\ ~(loc["r1"].ok /\ loc["r2"].ok)
           /\ cid \in DOMAIN Contracts
           => /\ (loc["r1"].ok \/ loc["r2"].ok) => Contracts[cid].CurrentStep = n + 1
              /\ Cardinality(ValidationBlocks(cid, n)) <= 1
              /\ Cardinality(ApprovalEntries(cid, n)) <= 1

\* C10: when calls that append blocks overlap, the blocks committed carry
\* distinct indexes (the index of each is its position), none is lost (the
\* chain grew by one block for each call that succeeded), and the chain is a
\* valid hash-linked sequence.
C10_WritesExclusive ==
    /\ \A i \in 1..Len(Chain) : Chain[i].Index = i - 1
    /\ \A i \in 2..Len(Chain) : Chain[i].PreviousHash = Chain[i-1].Hash
    /\ AllDone => Len(Chain) = base + Cardinality({p \in Procs : loc[p].ok})


(***************************************************************************)
(* The node with the inputs of its calls on record (SpecRec): the same     *)
(* operations, each adding what it was given to args, so that what a call  *)
(* did can be compared with what it was asked to do.                       *)
(***************************************************************************)
Input(op, in) == [op |-> op, in |-> in]

\* the input of the last call
LastInput == args[Len(args)].in

ReceiveOps == {"ReceiveBlock", "HandlerReceiveBlock"}

\* the blocks pushed to the node before, which a peer may push again
Replayed == { args[i].in : i \in { j \in 1..Len(args) : args[j].op \in ReceiveOps } }

\* Blockchain.AddContract
Rec_AddContract ==
    /\ Room /\ Idle
    /\ \E c \in ValidInputs \cup InvalidInputs :
       \E uuid \in (IF c.ID = "" THEN UUIDs \ DOMAIN Contracts ELSE {""}) :
          LET r == AddContractResult(Chain, Contracts, c, uuid, Now)
          IN  /\ Chain' = r.Chain
              /\ Contracts' = r.Contracts
              /\ last' = Call("AddContract", r.id, 0, FALSE, r.ok)
              /\ args' = Append(args, Input("AddContract", c))
    /\ calls' = calls + 1
    /\ pre' = [Chain |-> Chain, Contracts |-> Contracts]
    /\ UNCHANGED <<Peers, base, approvals, pc, loc, nodes, push>>

\* Blockchain.ReplaceChain
Rec_ReplaceChain ==
    /\ Room /\ Idle
    /\ \E newChain \in Candidates(Len(Chain)) :
          LET r == ReplaceChainResult(Chain, newChain)
          IN  /\ Chain' = r.chain
              /\ last' = Call("ReplaceChain", "", 0, FALSE, r.ok)
              /\ args' = Append(args, Input("ReplaceChain", newChain))
    /\ calls' = calls + 1
    /\ pre' = [Chain |-> Chain, Contracts |-> Contracts]
    /\ UNCHANGED <<Contracts, Peers, base, approvals, pc, loc, nodes, push>>

\* P2PNetwork.ReceiveBlock
Rec_ReceiveBlock ==
    /\ Room /\ Idle
    /\ \E block \in PushedBlocks(Chain, Now) \cup Replayed :
          LET r == ReceiveBlockResult(Chain, block, Now)
          IN  /\ Chain' = r.chain
              /\ last' = Call("ReceiveBlock", "", 0, FALSE, r.ok)
              /\ args' = Append(args, Input("ReceiveBlock", block))
    /\ calls' = calls + 1
    /\ pre' = [Chain |-> Chain, Contracts |-> Contracts]
    /\ UNCHANGED <<Contracts, Peers, base, approvals, pc, loc, nodes, push>>

\* P2PHandler.ReceiveBlock
Rec_HandlerReceiveBlock ==
    /\ Room /\ Idle
    /\ \E block \in PushedBlocks(Chain, Now) \cup Replayed :
          LET r == HandlerReceiveBlockResult(Chain, block, Now)
          IN  /\ Chain' = r.chain
              /\ last' = Call("HandlerReceiveBlock", "", 0, FALSE, r.ok)
              /\ args' = Append(args, Input("HandlerReceiveBlock", block))
    /\ calls' = calls + 1
    /\ pre' = [Chain |-> Chain, Contracts |-> Contracts]
    /\ UNCHANGED <<Contracts, Peers, base, approvals, pc, loc, nodes, push>>

\* P2PNetwork.SyncWithPeers
Rec_SyncWithPeers ==
    /\ Room /\ Idle
    /\ LET ids == ActivePeerIDs(Peers)
       IN  \E answers \in [1..Len(ids) -> Answers(Len(Chain))] :
              LET r == SyncLoop(Chain, Contracts, answers, 1)
              IN  /\ Chain' = r.Chain
                  /\ Contracts' = r.Contracts
                  /\ last' = Call("SyncWithPeers", "", 0, FALSE, TRUE)
                  /\ args' = Append(args, Input("SyncWithPeers", answers))
    /\ calls' = calls + 1
    /\ pre' = [Chain |-> Chain, Contracts |-> Contracts]
    /\ UNCHANGED <<Peers, base, approvals, pc, loc, nodes, push>>

NextRec ==
    \/ Rec_AddContract
    \/ Rec_ReplaceChain
    \/ Rec_ReceiveBlock
    \/ Rec_HandlerReceiveBlock
    \/ Rec_SyncWithPeers

\* a node just constructed, or with one contract that is new or has its
\* first step approved
InitRec == Init /\ Len(Chain) <= 3

SpecRec == InitRec /\ [][NextRec]_vars

\* C11: ReplaceChain adopts the candidate if and only if the candidate is
\* strictly longer than the chain and passes IsValidChain; any other
\* candidate is refused with an error and the chain stays as it was.
C11_ReplaceChainIff ==
    last.op = "ReplaceChain" =>
        IF Len(LastInput) > Len(pre.Chain) /\ IsValidChain(LastInput)
          THEN last.ok /\ Chain = LastInput
          ELSE ~last.ok /\ Chain = pre.Chain

\* a longer candidate that passes was offered and taken
C11_Witness ==
    /\ last.op = "ReplaceChain"
    /\ last.ok
    /\ Len(LastInput) > Len(pre.Chain)
    /\ Chain = LastInput
    /\ Chain # pre.Chain

\* the last two calls were receipts of one and the same block, and the first
\* of them appended to the chain the node started with
ReceivedTwice ==
    /\ calls = 2
    /\ Len(args) = 2
    /\ args[1].op \in ReceiveOps
    /\ args[2].op \in ReceiveOps
    /\ args[1].in = args[2].in
    /\ Len(pre.Chain) = base + 1

\* C13: a block received a second time is not added again: the second
\* receipt reports success and leaves the chain as the first one left it, so
\* the two receipts add exactly one entry.
C13_ReceiveIdempotent ==
    ReceivedTwice => (last.ok /\ Chain = pre.Chain /\ Len(Chain) = base + 1)

\* the last call was a receipt that was accepted and extended the chain
ReceivedNew ==
    /\ last.op \in ReceiveOps
    /\ last.ok
    /\ Chain # pre.Chain

\* C14: a received block that is accepted as new is itself the block
\* appended: the chain then holds a block with the received hash, and it is
\* the last one.
C14_ReceivedBlockStored ==
    ReceivedNew =>
        /\ HasBlock(Chain, LastInput.Hash)
        /\ getLatestBlock(Chain).Hash = LastInput.Hash

\* the answers of the last SyncWithPeers that are chains longer than the
\* local chain was and pass IsValidChain
LongerValid ==
    { i \in DOMAIN LastInput :
        /\ ~LastInput[i].err
        /\ Len(LastInput[i].chain) > Len(pre.Chain)
        /\ IsValidChain(LastInput[i].chain) }

\* C15: reconciliation with the active peers takes a peer's chain, block for
\* block, when that chain is strictly longer than the local one and passes
\* IsValidChain, and no such chain offered is longer than the one taken;
\* when no peer offers such a chain the local chain stays as it was.
C15_LongestValidChain ==
    last.op = "SyncWithPeers" =>
        IF LongerValid = {}
          THEN Chain = pre.Chain
          ELSE /\ \E i \in LongerValid : Chain = LastInput[i].chain
               /\ \A i \in LongerValid : Len(LastInput[i].chain) <= Len(Chain)

\* a peer's longer chain was taken in place of a local chain with a contract
C15_Witness ==
    /\ last.op = "SyncWithPeers"
    /\ LongerValid # {}
    /\ Len(pre.Chain) >= 2
    /\ Chain # pre.Chain
    /\ Chain = LastInput[1].chain

\* the contract ids named by the CONTRACT_CREATION blocks of a chain
CreationIDs(chain) ==
    { chain[i].Data.contract_id :
        i \in { j \in 1..Len(chain) : /\ chain[j].Type = "CONTRACT_CREATION"
                                      /\ "contract_id" \in DOMAIN chain[j].Data } }

\* C16: after a reconciliation that replaced the chain, the contracts held
\* are those of the CONTRACT_CREATION blocks of the chain taken, under the
\* contract ids of those blocks.
C16_ProjectionRebuilt ==
    (last.op = "SyncWithPeers" /\ Chain # pre.Chain) =>
        /\ DOMAIN Contracts = CreationIDs(Chain)
        /\ \A id \in DOMAIN Contracts : Contracts[id].ID = id

\* the contract of a request names entity code, entity name, description and
\* creator, and a positive amount
RequiredFieldsSet(c) ==
    /\ c.EntityCode # "" /\ c.EntityName # "" /\ c.Description # ""
    /\ c.CreatedBy # "" /\ c.Amount > 0

PipelineRoles ==
    <<RoleProjectDeveloper, RoleTechnicalCommission, RoleLegalCommission,
      RoleContractsChief, RoleAdminChief, RoleBudgetAuthority>>

\* a contract as AddContract leaves it, given the audit trail of the request
NewlyCreated(k, trail) ==
    /\ k.Status = StatusDraft
    /\ k.CurrentStep = 1
    /\ Len(k.ValidationSteps) = 6
    /\ \A i \in 1..6 : /\ k.ValidationSteps[i].Status = ValidationPending
                       /\ k.ValidationSteps[i].Role = PipelineRoles[i]
                       /\ k.ValidationSteps[i].StepNumber = i
    /\ Len(k.AuditTrail) = Len(trail) + 1
    /\ SubSeq(k.AuditTrail, 1, Len(trail)) = trail
    /\ k.AuditTrail[Len(k.AuditTrail)].Action = "WORKFLOW_INITIALIZED"

\* C20: AddContract of a contract with the required fields set and a
\* positive amount succeeds and leaves under its id a contract in DRAFT at
\* step 1 with six PENDING steps bound to the six roles in order and one
\* WORKFLOW_INITIALIZED entry added to its audit trail, and the chain longer
\* by exactly one CONTRACT_CREATION block for that id; AddContract of any
\* other contract fails and changes neither the chain nor the contracts.
C20_ContractCreated ==
    last.op = "AddContract" =>
        IF RequiredFieldsSet(LastInput)
          THEN /\ last.ok
               /\ LastInput.ID # "" => last.cid = LastInput.ID
               /\ last.cid \in DOMAIN Contracts
               /\ Contracts[last.cid].ID = last.cid
               /\ NewlyCreated(Contracts[last.cid], LastInput.AuditTrail)
               /\ \A id \in DOMAIN pre.Contracts \ {last.cid} :
                     id \in DOMAIN Contracts /\ Contracts[id] = pre.Contracts[id]
               /\ Len(Chain) = Len(pre.Chain) + 1
               /\ SubSeq(Chain, 1, Len(pre.Chain)) = pre.Chain
               /\ getLatestBlock(Chain).Type = "CONTRACT_CREATION"
               /\ getLatestBlock(Chain).Data.contract_id = last.cid
          ELSE /\ ~last.ok
               /\ Chain = pre.Chain
               /\ Contracts = pre.Contracts

\* a contract without an id was created next to the one the node held
C20_Witness ==
    /\ last.op = "AddContract"
    /\ last.ok
    /\ RequiredFieldsSet(LastInput)
    /\ LastInput.ID = ""
    /\ last.cid \in UUIDs
    /\ Cardinality(DOMAIN Contracts) = 2
    /\ Len(Chain) = Len(pre.Chain) + 1


(***************************************************************************)
(* The ledger under appends only (SpecAppend): every operation that writes *)
(* the chain through AddBlock, and none that replaces it.                  *)
(***************************************************************************)
\* payloads handed to AddBlock directly
DirectData == {PeerData, [message |-> "note"]}

\* Blockchain.AddBlock called directly
AddBlockDirect ==
    /\ Room /\ Idle
    /\ \E data \in DirectData :
          LET r == AddBlock(Chain, data, Now)
          IN  /\ Chain' = r.chain
              /\ last' = Call("AddBlock", "", 0, FALSE, r.ok)
    /\ calls' = calls + 1
    /\ pre' = [Chain |-> Chain, Contracts |-> Contracts]
    /\ UNCHANGED <<Contracts, Peers, base, approvals, pc, loc, args, nodes, push>>

NextAppend ==
    \/ AddBlockDirect
    \/ AddContract
    \/ ValidateStep
    \/ AddAuditObservation
    \/ ValidateContract
    \/ ReceiveBlock
    \/ HandlerReceiveBlock

SpecAppend == Init /\ [][NextAppend]_vars

\* C12: IsChainValid holds of every chain built from a new ledger by
\* AddBlock calls alone, made directly or by AddContract, ValidateStep,
\* AddAuditObservation and the other operations that append.
C12_AppendsKeepValid == IsChainValid(Chain)

\* a chain of at least four blocks whose last two were appended in this run,
\* the last one by a direct AddBlock
C12_Witness ==
    /\ last.op = "AddBlock"
    /\ last.ok
    /\ Len(Chain) = base + 2
    /\ Len(Chain) >= 4
    /\ Len(Chain) = Len(pre.Chain) + 1

(***************************************************************************)
(* A network of nodes (SpecSync): every node is an active peer of every    *)
(* other, nodes append and push blocks a bounded number of times, and      *)
(* every node reconciles again and again.                                  *)
(***************************************************************************)
NodeIDs == {"n1", "n2", "n3"}

\* json.Marshal of a block as GET /api/p2p/get-chain serves it
MarshalBlock(b) ==
    [index |-> b.Index, timestamp |-> b.Timestamp, data |-> b.Data,
     previous_hash |-> b.PreviousHash, hash |-> b.Hash, nonce |-> b.Nonce,
     type |-> b.Type]

\* json.Unmarshal of a served block into a Block
UnmarshalBlock(j) ==
    [Index |-> j.index, Timestamp |-> j.timestamp, Data |-> j.data,
     PreviousHash |-> j.previous_hash, Hash |-> j.hash, Nonce |-> j.nonce,
     Type |-> j.type]

\* P2PNetwork.requestChainFromPeer answered by a peer that holds peerChain
requestChainFromPeer(peerChain) ==
    [err |-> FALSE,
     chain |-> [i \in 1..Len(peerChain) |-> UnmarshalBlock(MarshalBlock(peerChain[i]))]]

\* the orders in which the loop of SyncWithPeers may visit the peers of n
VisitOrders(n) ==
    { o \in [1..Cardinality(NodeIDs \ {n}) -> NodeIDs \ {n}] :
        \A i, j \in DOMAIN o : i # j => o[i] # o[j] }

\* the payload of a block node n appends on its own
OwnData(n) == [type |-> "CONTRACT_CREATION", contract_id |-> "c1", created_by |-> n]

InitSync ==
    /\ nodes \in [NodeIDs -> { [Chain |-> <<GenesisBlock(t)>>, Contracts |-> NoContracts,
                               runs |-> 0] : t \in {StartTime, Now} }]
    /\ Chain = WarmStates[0].Chain
    /\ Contracts = WarmStates[0].Contracts
    /\ base = 1
    /\ calls = 0
    /\ approvals = [c \in AllIDs |-> <<>>]
    /\ Peers = InitialPeers
    /\ last = Call("none", "", 0, FALSE, TRUE)
    /\ pre = [Chain |-> WarmStates[0].Chain, Contracts |-> WarmStates[0].Contracts]
    /\ pc = [p \in Procs |-> "idle"]
    /\ loc = [p \in Procs |-> Call("none", "", 0, FALSE, TRUE)]
    /\ args = <<>>
    /\ push = <<>>

\* Blockchain.AddBlock on node n
Net_AddBlock(n) ==
    /\ Room
    /\ nodes' = [nodes EXCEPT ![n].Chain = AddBlock(@, OwnData(n), Now).chain]
    /\ calls' = calls + 1
    /\ UNCHANGED <<Chain, Contracts, Peers, base, last, pre, approvals, pc, loc, args, push>>

\* P2PHandler.ReceiveBlock on node m, of the latest block of node n as
\* BroadcastBlock pushes it
Net_ReceiveBlock(n, m) ==
    /\ Room
    /\ n # m
    /\ LET block == UnmarshalBlock(MarshalBlock(getLatestBlock(nodes[n].Chain)))
       IN  nodes' = [nodes EXCEPT ![m].Chain = HandlerReceiveBlockResult(@, block, Now).chain]
    /\ calls' = calls + 1
    /\ UNCHANGED <<Chain, Contracts, Peers, base, last, pre, approvals, pc, loc, args, push>>

\* P2PNetwork.SyncWithPeers on node n, every peer answering with the chain it
\* holds; runs is the parity of the number of runs made
Net_SyncWithPeers(n) ==
    \E order \in VisitOrders(n) :
        LET answers == [i \in DOMAIN order |-> requestChainFromPeer(nodes[order[i]].Chain)]
            r == SyncLoop(nodes[n].Chain, nodes[n].Contracts, answers, 1)
        IN  /\ nodes' = [nodes EXCEPT ![n] = [Chain |-> r.Chain, Contracts |-> r.Contracts,
                                              runs |-> 1 - @.runs]]
            /\ UNCHANGED <<Chain, Contracts, Peers, base, calls, last, pre, approvals, pc, loc, args, push>>

\* P2PNetwork.SyncBlockchain on node n (POST /api/p2p/sync): no chain is
\* requested and none is written
Net_SyncBlockchain(n) ==
    /\ nodes' = [nodes EXCEPT ![n].runs = 1 - @]
    /\ UNCHANGED <<Chain, Contracts, Peers, base, calls, last, pre, approvals, pc, loc, args, push>>

NextSync ==
    \E n \in NodeIDs :
        \/ Net_AddBlock(n)
        \/ \E m \in NodeIDs : Net_ReceiveBlock(n, m)
        \/ Net_SyncWithPeers(n)
        \/ Net_SyncBlockchain(n)

\* every node runs SyncWithPeers again and again
SpecSync ==
    /\ InitSync
    /\ [][NextSync]_vars
    /\ \A n \in NodeIDs : WF_vars(Net_SyncWithPeers(n))

\* all nodes hold the same chain
Agree == \A n, m \in NodeIDs : nodes[n].Chain = nodes[m].Chain

\* C17: in a network whose nodes are active peers of one another, where
\* appends come to an end and every node keeps reconciling, the nodes hold
\* the same chain from some time on.
C17_EventuallyConsistent == <>[]Agree

(***************************************************************************)
(* The peer map of a node (SpecPeers): adding, removing, probing and       *)
(* discovering peers, and BroadcastBlock with one goroutine per push.      *)
(* Every operation on the map holds P2PNetwork.mutex, so each is one step; *)
(* the pushes of a broadcast run after BroadcastBlock returned and         *)
(* interleave with each other and with the other operations.               *)
(***************************************************************************)
PeerIDs == {"p1", "p2", "p3"}

NewPeer(id, lastSeen, active) ==
    [ID |-> id, Address |-> "10.0.0.1", Port |-> "8080", LastSeen |-> lastSeen,
     Active |-> active]

\* the record of a call on the peer map: what it was given, and the map and
\* the pushes as they were before it
PeerInput(op, given) == <<Input(op, [given |-> given, before |-> Peers, pushed |-> push])>>

\* BroadcastBlock reaching every peer of the map, active or not; C18 tells it
\* from BroadcastTargets
BroadcastTargetsAll(peers) == DOMAIN peers

\* P2PNetwork.BroadcastBlock: the peers a goroutine is started for
BroadcastTargets(peers) == { p \in DOMAIN peers : peers[p].Active }

\* P2PNetwork.markPeerInactive
markPeerInactive(peers, peerID) ==
    IF peerID \in DOMAIN peers THEN [peers EXCEPT ![peerID].Active = FALSE] ELSE peers

\* P2PNetwork.HealthCheck, reached being the peers that answer the probe
HealthCheckResult(peers, reached, now) ==
    [p \in DOMAIN peers |->
        IF p \in reached THEN [peers[p] EXCEPT !.Active = TRUE, !.LastSeen = now]
                         ELSE [peers[p] EXCEPT !.Active = FALSE]]

\* syncWithDiscoveredPeers only adding the discovered peers and dropping
\* none; C30 tells it from syncWithDiscoveredPeersResult
syncWithDiscoveredPeersMerge(peers, discovered, now) ==
    [p \in DOMAIN peers \cup discovered |->
        IF p \in DOMAIN peers THEN peers[p] ELSE NewPeer(p, now, TRUE)]

\* P2PNetwork.syncWithDiscoveredPeers, discovered being the ids returned by
\* PeerDiscovery.GetActivePeers, which lists only peers with IsActive set
syncWithDiscoveredPeersResult(peers, discovered, now) ==
    [p \in discovered |-> IF p \in DOMAIN peers THEN peers[p] ELSE NewPeer(p, now, TRUE)]

\* no goroutine of a broadcast is still running
NoPushInFlight == \A p \in DOMAIN push : push[p] \in {"sent", "marked"}

\* AddPeer storing the new peer whether or not the id is already in the
\* map; C31 tells it from AddPeerResult
AddPeerOverwrite(peers, id, now) ==
    [p \in DOMAIN peers \cup {id} |-> IF p = id THEN NewPeer(id, now, TRUE) ELSE peers[p]]

\* P2PNetwork.AddPeer: the map it leaves; an id already in the map is the
\* error "peer already exists"
AddPeerResult(peers, id, now) ==
    IF id \in DOMAIN peers THEN peers
    ELSE [p \in DOMAIN peers \cup {id} |-> IF p = id THEN NewPeer(id, now, TRUE) ELSE peers[p]]

\* P2PNetwork.RemovePeer: the map it leaves; an id not in the map is the
\* error "peer not found"
RemovePeerResult(peers, id) == [p \in DOMAIN peers \ {id} |-> peers[p]]

\* P2PNetwork.AddPeer
P_AddPeer ==
    /\ Room
    /\ \E id \in PeerIDs :
          /\ Peers' = AddPeerResult(Peers, id, Now)
          /\ last' = Call("AddPeer", id, 0, FALSE, id \notin DOMAIN Peers)
          /\ args' = PeerInput("AddPeer", id)
    /\ calls' = calls + 1
    /\ UNCHANGED <<Chain, Contracts, base, pre, approvals, pc, loc, nodes, push>>

\* P2PNetwork.RemovePeer
P_RemovePeer ==
    /\ Room
    /\ \E id \in PeerIDs :
          /\ Peers' = RemovePeerResult(Peers, id)
          /\ last' = Call("RemovePeer", id, 0, FALSE, id \in DOMAIN Peers)
          /\ args' = PeerInput("RemovePeer", id)
    /\ calls' = calls + 1
    /\ UNCHANGED <<Chain, Contracts, base, pre, approvals, pc, loc, nodes, push>>

\* P2PNetwork.BroadcastBlock: the loop that starts one goroutine per active
\* peer; one broadcast at a time
P_BroadcastBlock ==
    /\ Room
    /\ NoPushInFlight
    /\ push' = [p \in BroadcastTargets(Peers) |-> "sending"]
    /\ last' = Call("BroadcastBlock", "", 0, FALSE, TRUE)
    /\ args' = PeerInput("BroadcastBlock", getLatestBlock(Chain).Hash)
    /\ calls' = calls + 1
    /\ UNCHANGED <<Chain, Contracts, Peers, base, pre, approvals, pc, loc, nodes>>

\* the goroutine of peer p: sendBlockToPeer returns, with or without an error
P_Send(p) ==
    /\ p \in DOMAIN push
    /\ push[p] = "sending"
    /\ \E ok \in BOOLEAN : push' = [push EXCEPT ![p] = IF ok THEN "sent" ELSE "failed"]
    /\ UNCHANGED <<Chain, Contracts, Peers, base, calls, last, pre, approvals, pc, loc, args, nodes>>

\* the goroutine of peer p: markPeerInactive after a failed send
P_Mark(p) ==
    /\ p \in DOMAIN push
    /\ push[p] = "failed"
    /\ Peers' = markPeerInactive(Peers, p)
    /\ push' = [push EXCEPT ![p] = "marked"]
    /\ UNCHANGED <<Chain, Contracts, base, calls, last, pre, approvals, pc, loc, args, nodes>>

\* P2PNetwork.HealthCheck
P_HealthCheck ==
    /\ Room
    /\ \E reached \in SUBSET DOMAIN Peers :
          /\ Peers' = HealthCheckResult(Peers, reached, Now)
          /\ args' = PeerInput("HealthCheck", reached)
    /\ last' = Call("HealthCheck", "", 0, FALSE, TRUE)
    /\ calls' = calls + 1
    /\ UNCHANGED <<Chain, Contracts, base, pre, approvals, pc, loc, nodes, push>>

\* P2PNetwork.syncWithDiscoveredPeers
P_syncWithDiscoveredPeers ==
    /\ Room
    /\ \E discovered \in SUBSET PeerIDs :
          /\ Peers' = syncWithDiscoveredPeersResult(Peers, discovered, Now)
          /\ args' = PeerInput("syncWithDiscoveredPeers", discovered)
    /\ last' = Call("syncWithDiscoveredPeers", "", 0, FALSE, TRUE)
    /\ calls' = calls + 1
    /\ UNCHANGED <<Chain, Contracts, base, pre, approvals, pc, loc, nodes, push>>

NextPeers ==
    \/ P_AddPeer
    \/ P_RemovePeer
    \/ P_BroadcastBlock
    \/ \E p \in PeerIDs : P_Send(p) \/ P_Mark(p)
    \/ P_HealthCheck
    \/ P_syncWithDiscoveredPeers

\* a node just constructed, with the peers of InitialPeers
InitPeers == Init /\ Len(Chain) = 1

SpecPeers == InitPeers /\ [][NextPeers]_vars

\* the peer map before the last call, and what the call was given
PeersBefore == LastInput.before
Given == LastInput.given

\* the last call was a broadcast, all its goroutines are done, and no other
\* call was made since it started
BroadcastDone ==
    /\ last.op = "BroadcastBlock"
    /\ NoPushInFlight

\* C18: a broadcast pushes to exactly the peers that were active when it was
\* called, every one of them is attempted whatever happens to the others,
\* and when it is over exactly the peers whose push failed have lost their
\* active flag, the map being otherwise what it was.
C18_BroadcastMarksFailed ==
    /\ last.op = "BroadcastBlock" =>
          DOMAIN push = { p \in DOMAIN PeersBefore : PeersBefore[p].Active }
    /\ \A p \in DOMAIN push : push[p] = "sending" => ENABLED P_Send(p)
    /\ BroadcastDone =>
          Peers = [p \in DOMAIN PeersBefore |->
                     IF p \in DOMAIN push /\ push[p] = "marked"
                       THEN [PeersBefore[p] EXCEPT !.Active = FALSE]
                       ELSE PeersBefore[p]]

\* a broadcast to two active peers and past an inactive one is over: one
\* push failed, the other did not
C18_Witness ==
    /\ BroadcastDone
    /\ \E p, q, r \in DOMAIN Peers :
          /\ p \in DOMAIN push /\ push[p] = "marked" /\ ~Peers[p].Active
          /\ q \in DOMAIN push /\ push[q] = "sent" /\ Peers[q].Active
          /\ r \notin DOMAIN push /\ ~Peers[r].Active

\* before the last call was made, peer p had lost its active flag to a failed
\* push of the last broadcast and was still without it
Demoted(p) ==
    /\ p \in DOMAIN LastInput.pushed
    /\ LastInput.pushed[p] = "marked"
    /\ p \in DOMAIN PeersBefore
    /\ ~PeersBefore[p].Active

\* the calls that may give a demoted peer its active flag back
RestoringOps == {"HealthCheck", "syncWithDiscoveredPeers"}

\* C19: a peer demoted by a failed push is without its active flag until a
\* HealthCheck or a discovery sync is run, and it has the flag again after a
\* HealthCheck that reached it and after a discovery sync whose result
\* lists it.
C19_DemotedUntilRestored ==
    \A p \in PeerIDs :
        (last.op # "none" /\ Demoted(p)) =>
            /\ (last.op \notin RestoringOps /\ p \in DOMAIN Peers) => ~Peers[p].Active
            /\ (last.op = "HealthCheck" /\ p \in Given) =>
                  (p \in DOMAIN Peers /\ Peers[p].Active)
            /\ (last.op = "syncWithDiscoveredPeers" /\ p \in Given) =>
                  (p \in DOMAIN Peers /\ Peers[p].Active)

(***************************************************************************)
(* Properties of the contract projection over the node's operations        *)
(* (Spec): pre is the projection before the last call, Contracts after.    *)
(***************************************************************************)

\* C21: a contract is never deleted: every contract id held before a call
\* on the node, chain reconciliation included, is still held after it.
C21_NeverDeleted ==
    DOMAIN pre.Contracts \subseteq DOMAIN Contracts

\* C22: a contract is created once and its current_step never decreases:
\* for every contract id held before and after a call, a second AddContract
\* naming that id included, current_step after is at least current_step before.
C22_StepMonotonic ==
    \A id \in DOMAIN pre.Contracts \cap DOMAIN Contracts :
        Contracts[id].CurrentStep >= pre.Contracts[id].CurrentStep

\* C23: the status of an existing contract is changed only by ValidateStep:
\* after any other call on the node (AddAuditObservation, the node-level
\* ValidateContract, block receipt, chain replacement, reconciliation) every
\* contract held before and after the call has the status it had before.
\* AddContract, which sets the status of the contract it creates, is C22's.
C23_StatusOnlyByValidateStep ==
    last.op \notin {"ValidateStep", "AddContract"} =>
        \A id \in DOMAIN pre.Contracts \cap DOMAIN Contracts :
            Contracts[id].Status = pre.Contracts[id].Status

(***************************************************************************)
(* Properties of the workflow writes (SpecAppend).                         *)
(***************************************************************************)

\* C24: every successful ValidateStep appends exactly one block, of type
\* VALIDATION, carrying the contract id, the step and the decision, and
\* exactly one audit entry to the contract; that newest entry's block_hash
\* is the hash of that block, and the block is in the chain.
C24_TransitionIsLinkedBlock ==
    (last.op = "ValidateStep" /\ last.ok) =>
        LET b == Chain[Len(Chain)]
            before == pre.Contracts[last.cid].AuditTrail
            after == Contracts[last.cid].AuditTrail
        IN  /\ Len(Chain) = Len(pre.Chain) + 1
            /\ SubSeq(Chain, 1, Len(pre.Chain)) = pre.Chain
            /\ b.Type = "VALIDATION"
            /\ b.Data.contract_id = last.cid
            /\ b.Data.step = last.step
            /\ b.Data.approved = last.approved
            /\ Len(after) = Len(before) + 1
            /\ SubSeq(after, 1, Len(before)) = before
            /\ after[Len(after)].Action \in {"STEP_APPROVED", "STEP_REJECTED"}
            /\ after[Len(after)].BlockHash = b.Hash
            /\ b.Hash # EmptyHash
            /\ HasBlock(Chain, b.Hash)

\* C24 witness: step 3 was rejected on top of an earlier call of the run; the
\* rejection's block is last and the newest of four audit entries names it
C24_Witness ==
    /\ last.op = "ValidateStep" /\ last.ok /\ ~last.approved /\ last.step = 3
    /\ calls = 2
    /\ Chain[Len(Chain)].Data.step = 3
    /\ Len(Contracts[last.cid].AuditTrail) >= 4
    /\ Contracts[last.cid].AuditTrail[Len(Contracts[last.cid].AuditTrail)].BlockHash
          = Chain[Len(Chain)].Hash

\* C25: AddAuditObservation never changes workflow state: after any call,
\* successful or not, every contract has the status, current_step and
\* validation steps it had before; a successful call leaves the chain with
\* exactly one more block, of type AUDIT_OBSERVATION for the contract, and
\* the projection with exactly one more audit entry, on that contract.
C25_ObservationIsInformational ==
    last.op = "AddAuditObservation" =>
        /\ DOMAIN Contracts = DOMAIN pre.Contracts
        /\ \A id \in DOMAIN Contracts :
              /\ Contracts[id].Status = pre.Contracts[id].Status
              /\ Contracts[id].CurrentStep = pre.Contracts[id].CurrentStep
              /\ Contracts[id].ValidationSteps = pre.Contracts[id].ValidationSteps
        /\ last.ok =>
              LET b == Chain[Len(Chain)]
                  after == Contracts[last.cid].AuditTrail
              IN  /\ OneBlockAppended(pre.Chain, Chain)
                  /\ b.Type = "AUDIT_OBSERVATION"
                  /\ b.Data.contract_id = last.cid
                  /\ after[Len(after)].Action = "AUDIT_OBSERVATION"
                  /\ Contracts = [pre.Contracts EXCEPT ![last.cid].AuditTrail =
                                      Append(@, after[Len(after)])]

\* C25 witness: an observation was recorded on a contract in legal review
\* (step 3) that an earlier call of the run had advanced
C25_Witness ==
    /\ last.op = "AddAuditObservation" /\ last.ok
    /\ calls = 2
    /\ Contracts[last.cid].Status = "LEGAL_REVIEW"
    /\ Contracts[last.cid].CurrentStep = 3
    /\ Len(Chain) = base + 2
    /\ Chain[Len(Chain)].Type = "AUDIT_OBSERVATION"

(***************************************************************************)
(* The ledger and a caller of GetChain in one memory (SpecAlias).  bc.Chain *)
(* is a []*Block: nodes.heap holds the blocks by address, nodes.slice the  *)
(* addresses bc.Chain holds, nodes.got the slice a caller was handed.      *)
(* Chain is the ledger's chain read through the pointers.                  *)
(***************************************************************************)
\* the blocks a slice of pointers leads to
Deref(heap, slice) == [i \in 1..Len(slice) |-> heap[slice[i]]]

\* Blockchain.GetChain: make and copy give a new slice holding the same pointers
GetChain(slice) == [i \in 1..Len(slice) |-> slice[i]]

\* what a caller may write into a block it reaches through the returned slice
FieldWrites == {"Nonce", "Hash", "Data"}

\* the block after the write; Data is a Go map, written through by key
WriteField(b, f) ==
    CASE f = "Nonce" -> [b EXCEPT !.Nonce = 7]
      [] f = "Hash" -> [b EXCEPT !.Hash = ForeignHash]
      [] OTHER -> [b EXCEPT !.Data = [k \in DOMAIN b.Data \cup {"message"} |->
                                         IF k = "message" THEN "edited" ELSE b.Data[k]]]

InitAlias ==
    \E k \in 0..(NumSteps + 1) :
        /\ Chain = WarmStates[k].Chain
        /\ Contracts = WarmStates[k].Contracts
        /\ base = Len(WarmStates[k].Chain)
        /\ calls = 0
        /\ approvals = [c \in AllIDs |-> <<>>]
        /\ Peers = InitialPeers
        /\ last = Call("none", "", 0, FALSE, TRUE)
        /\ pre = [Chain |-> WarmStates[k].Chain, Contracts |-> WarmStates[k].Contracts]
        /\ pc = [p \in Procs |-> "idle"]
        /\ loc = [p \in Procs |-> Call("none", "", 0, FALSE, TRUE)]
        /\ args = <<>>
        /\ nodes = [heap |-> WarmStates[k].Chain,
                    slice |-> [i \in 1..Len(WarmStates[k].Chain) |-> i],
                    got |-> <<>>]
        /\ push = <<>>

\* Blockchain.AddBlock: the new block is allocated and its pointer appended
Al_AddBlock ==
    /\ Room
    /\ \E data \in DirectData :
          LET r == AddBlock(Chain, data, Now)
              heap == IF r.ok THEN Append(nodes.heap, r.block) ELSE nodes.heap
              slice == IF r.ok THEN Append(nodes.slice, Len(heap)) ELSE nodes.slice
          IN  /\ nodes' = [nodes EXCEPT !.heap = heap, !.slice = slice]
              /\ Chain' = Deref(heap, slice)
              /\ last' = Call("AddBlock", "", 0, FALSE, r.ok)
    /\ calls' = calls + 1
    /\ pre' = [Chain |-> Chain, Contracts |-> Contracts]
    /\ UNCHANGED <<Contracts, Peers, base, approvals, pc, loc, args, push>>

\* Blockchain.GetChain called; the caller keeps what it returns
Al_GetChain ==
    /\ Room
    /\ nodes' = [nodes EXCEPT !.got = GetChain(nodes.slice)]
    /\ last' = Call("GetChain", "", 0, FALSE, TRUE)
    /\ calls' = calls + 1
    /\ pre' = [Chain |-> Chain, Contracts |-> Contracts]
    /\ UNCHANGED <<Chain, Contracts, Peers, base, approvals, pc, loc, args, push>>

\* the caller swaps two neighbours of the returned slice
Al_Reorder ==
    /\ Room
    /\ \E i \in 1..(Len(nodes.got) - 1) :
          nodes' = [nodes EXCEPT !.got = [@ EXCEPT ![i] = nodes.got[i + 1],
                                                   ![i + 1] = nodes.got[i]]]
    /\ Chain' = Deref(nodes'.heap, nodes'.slice)
    /\ last' = Call("Reorder", "", 0, FALSE, TRUE)
    /\ calls' = calls + 1
    /\ pre' = [Chain |-> Chain, Contracts |-> Contracts]
    /\ UNCHANGED <<Contracts, Peers, base, approvals, pc, loc, args, push>>

\* the caller cuts the returned slice short
Al_Truncate ==
    /\ Room
    /\ \E n \in 0..(Len(nodes.got) - 1) :
          nodes' = [nodes EXCEPT !.got = SubSeq(@, 1, n)]
    /\ Chain' = Deref(nodes'.heap, nodes'.slice)
    /\ last' = Call("Truncate", "", 0, FALSE, TRUE)
    /\ calls' = calls + 1
    /\ pre' = [Chain |-> Chain, Contracts |-> Contracts]
    /\ UNCHANGED <<Contracts, Peers, base, approvals, pc, loc, args, push>>

\* the caller writes a field of a block of the returned slice
Al_SetField ==
    /\ Room
    /\ \E i \in 1..Len(nodes.got), f \in FieldWrites :
          nodes' = [nodes EXCEPT !.heap[nodes.got[i]] = WriteField(@, f)]
    /\ Chain' = Deref(nodes'.heap, nodes'.slice)
    /\ last' = Call("SetField", "", 0, FALSE, TRUE)
    /\ calls' = calls + 1
    /\ pre' = [Chain |-> Chain, Contracts |-> Contracts]
    /\ UNCHANGED <<Contracts, Peers, base, approvals, pc, loc, args, push>>

NextAlias ==
    \/ Al_AddBlock
    \/ Al_GetChain
    \/ Al_Reorder
    \/ Al_Truncate
    \/ Al_SetField

SpecAlias == InitAlias /\ [][NextAlias]_vars

CallerWrites == {"Reorder", "Truncate", "SetField"}

\* C26: GetChain returns a defensive copy: whatever a caller does through the
\* returned value (reordering it, cutting it short, writing a field of a
\* block it holds), the ledger's chain and every block in it stay as they were.
C26_DefensiveCopy ==
    last.op \in CallerWrites => Chain = pre.Chain

(***************************************************************************)
(* Properties of the peer directory under discovery syncs (SpecPeers).     *)
(***************************************************************************)

\* the last call was a sync with discovery and no goroutine of an earlier
\* broadcast has moved since it returned
SyncJustDone ==
    /\ last.op = "syncWithDiscoveredPeers"
    /\ push = LastInput.pushed

\* C30: peer synchronisation is a full refresh: after a sync with discovery
\* the peer directory holds exactly the peers of the discovery result the
\* sync was given; a peer absent from that result, one added manually
\* included, is gone, a peer of the result that was held already is kept as
\* it was, and one that was not held is entered as an active peer.
C30_SyncIsFullRefresh ==
    SyncJustDone =>
        /\ DOMAIN Peers = Given
        /\ \A p \in DOMAIN PeersBefore \ Given : p \notin DOMAIN Peers
        /\ \A p \in Given \cap DOMAIN PeersBefore : Peers[p] = PeersBefore[p]
        /\ \A p \in Given \ DOMAIN PeersBefore : Peers[p].ID = p /\ Peers[p].Active

\* C30 witness: p3 was added by AddPeer, and the sync that followed, whose
\* discovery result listed other peers only, dropped it
C30_Witness ==
    /\ SyncJustDone
    /\ calls = 2
    /\ "p3" \in DOMAIN PeersBefore
    /\ Given # {} /\ "p3" \notin Given
    /\ "p3" \notin DOMAIN Peers
    /\ DOMAIN Peers = Given

(***************************************************************************)
(* The network tasks of a node, statement by statement: the                *)
(* calls on P2PNetwork made by two request tasks, the goroutines of a      *)
(* broadcast (one per peer, named by the peer), Start and Stop (main) and  *)
(* the two ticker loops (disc, resync).  nodes holds the two RWMutexes,    *)
(* the known-peer map and the tickers; loc[t] the peers left to a task's   *)
(* loop, the outbound call it has in flight and the registry's answer it   *)
(* holds; args the environment: whether a                                  *)
(* registry URL is configured, which hosts never answer, and whether the   *)
(* build shares the range variable of a loop among its iterations.         *)
(***************************************************************************)
NodeID == "n0"

Registry == "registry"

Tasks == Procs \cup PeerIDs \cup {"main", "disc", "resync"}

NoCall == [kind |-> "none", to |-> ""]

OutCall(kind, to) == [kind |-> kind, to |-> to]

\* the outbound calls made with an http.Client that has a Timeout; the others
\* use http.Get and http.Post, whose default client has none
HasTimeout(kind) == kind \in {"health probe", "deregistration"}

\* the call task t has in flight can return: its host answers, or its client
\* gives up after the timeout
CanComplete(t) ==
    /\ loc[t].call # NoCall
    /\ (loc[t].call.to \notin args.silent \/ HasTimeout(loc[t].call.kind))

\* sync.RWMutex: RLock is granted unless a writer holds, Lock when nobody holds
RLockFree(m) == m.w = "none"
LockFree(m) == m.w = "none" /\ m.r = {}

HoldsLock(t) ==
    \/ nodes.mutex.w = t \/ t \in nodes.mutex.r
    \/ nodes.pdMutex.w = t \/ t \in nodes.pdMutex.r

\* Stop has returned
Stopped == pc["main"] = "stopped"

\* what the registry may answer to GET /api/peers, as the JSON array it sends
RegistryAnswers == {<<>>, <<"p1">>, <<"p1", "p3">>, <<"p3", NodeID>>}

\* PeerDiscovery.discoverPeers, the update of knownPeers: every peer of the
\* answer but the node itself is stored under its id as &peer, a pointer to
\* the range variable.  knownPeers maps the id to the id of the PeerInfo the
\* pointer leads to: the peer itself when every iteration has its own
\* variable, the last peer of the answer when they share one.  No LastSeen is
\* five minutes old within a run, so nothing is evicted.
discoverPeersStore(known, answer, shared) ==
    LET ids == {answer[i] : i \in 1..Len(answer)} \ {NodeID}
    IN  [k \in DOMAIN known \cup ids |->
            IF k \in ids THEN (IF shared THEN answer[Len(answer)] ELSE k)
                         ELSE known[k]]

\* PeerDiscovery.GetActivePeers: the ids of the PeerInfo values listed
PDGetActivePeers(known) == {known[k] : k \in DOMAIN known}

\* what GET /api/p2p/get-chain of a peer may bring: an error or a chain
PullAnswers == {[err |-> TRUE, chain |-> <<>>], [err |-> FALSE, chain |-> HonestChains[2]]}

\* the entry points of the calls a request task may make
RequestEntry ==
    [SyncWithPeers |-> "sw_lock", HealthCheck |-> "hc_lock",
     BroadcastBlock |-> "bb_lock", AddPeer |-> "ap_lock"]

InitTasks ==
    /\ Chain = WarmStates[0].Chain
    /\ Contracts = WarmStates[0].Contracts
    /\ base = 1
    /\ calls = 0
    /\ approvals = [c \in AllIDs |-> <<>>]
    /\ Peers = InitialPeers
    /\ last = Call("none", "", 0, FALSE, TRUE)
    /\ pre = [Chain |-> WarmStates[0].Chain, Contracts |-> WarmStates[0].Contracts]
    /\ pc = [t \in Tasks |->
                IF t \in Procs THEN "idle"
                ELSE IF t \in PeerIDs THEN "g_idle"
                ELSE IF t = "main" THEN "new" ELSE "off"]
    /\ loc = [t \in Tasks |-> [todo |-> {}, call |-> NoCall, answer |-> <<>>]]
    /\ args \in [registry : BOOLEAN, silent : {{}, {"p1"}, {Registry}}, shared : BOOLEAN]
    /\ nodes = [mutex |-> [w |-> "none", r |-> {}],
                pdMutex |-> [w |-> "none", r |-> {}],
                knownPeers |-> [x \in {} |-> ""],
                discTicker |-> FALSE, syncTicker |-> FALSE,
                discTick |-> 0, syncTick |-> 0,
                ran |-> {}, changed |-> {}]
    /\ push = <<>>

\* what no step of these tasks writes
TaskFrame == UNCHANGED <<base, approvals, last, pre, args, push>>

\* a request task is handed a call on the network
T_Request(t) ==
    /\ t \in Procs /\ pc[t] = "idle" /\ Room
    /\ \E op \in DOMAIN RequestEntry : pc' = [pc EXCEPT ![t] = RequestEntry[op]]
    /\ calls' = calls + 1
    /\ TaskFrame /\ UNCHANGED <<Chain, Contracts, Peers, loc, nodes>>

\* P2PNetwork.SyncWithPeers: p2p.mutex.RLock()
SW_RLock(t) ==
    /\ pc[t] = "sw_lock" /\ RLockFree(nodes.mutex)
    /\ nodes' = [nodes EXCEPT !.mutex.r = @ \cup {t}]
    /\ loc' = [loc EXCEPT ![t].todo = DOMAIN Peers]
    /\ pc' = [pc EXCEPT ![t] = "sw_loop"]
    /\ TaskFrame /\ UNCHANGED <<Chain, Contracts, Peers, calls>>

\* SyncWithPeers: the next peer of the range, skipped or asked for its chain;
\* the deferred RUnlock when the range is done
SW_Next(t) ==
    /\ pc[t] = "sw_loop"
    /\ IF loc[t].todo = {}
         THEN /\ nodes' = [nodes EXCEPT !.mutex.r = @ \ {t}]
              /\ pc' = [pc EXCEPT ![t] = "idle"]
              /\ loc' = loc
         ELSE \E q \in loc[t].todo :
                 /\ nodes' = nodes
                 /\ IF Peers[q].Active
                      THEN /\ loc' = [loc EXCEPT ![t].todo = @ \ {q},
                                                  ![t].call = OutCall("chain pull", q)]
                           /\ pc' = [pc EXCEPT ![t] = "sw_call"]
                      ELSE /\ loc' = [loc EXCEPT ![t].todo = @ \ {q}]
                           /\ pc' = pc
    /\ TaskFrame /\ UNCHANGED <<Chain, Contracts, Peers, calls>>

\* SyncWithPeers: requestChainFromPeer returns; a longer valid chain is taken
SW_Answer(t) ==
    /\ pc[t] = "sw_call" /\ CanComplete(t)
    /\ \E ans \in (IF loc[t].call.to \in args.silent THEN {} ELSE PullAnswers) :
          IF ~ans.err /\ Len(ans.chain) > Len(Chain) /\ IsValidChain(ans.chain)
            THEN /\ Chain' = ans.chain
                 /\ Contracts' = rebuildContractsFromChain(ans.chain)
            ELSE UNCHANGED <<Chain, Contracts>>
    /\ loc' = [loc EXCEPT ![t].call = NoCall]
    /\ pc' = [pc EXCEPT ![t] = "sw_loop"]
    /\ TaskFrame /\ UNCHANGED <<Peers, calls, nodes>>

\* P2PNetwork.HealthCheck: p2p.mutex.Lock()
HC_Lock(t) ==
    /\ pc[t] = "hc_lock" /\ LockFree(nodes.mutex)
    /\ nodes' = [nodes EXCEPT !.mutex.w = t]
    /\ loc' = [loc EXCEPT ![t].todo = DOMAIN Peers]
    /\ pc' = [pc EXCEPT ![t] = "hc_loop"]
    /\ TaskFrame /\ UNCHANGED <<Chain, Contracts, Peers, calls>>

\* HealthCheck: the next peer of the range is probed; the deferred Unlock
HC_Next(t) ==
    /\ pc[t] = "hc_loop"
    /\ IF loc[t].todo = {}
         THEN /\ nodes' = [nodes EXCEPT !.mutex.w = "none"]
              /\ pc' = [pc EXCEPT ![t] = "idle"]
              /\ loc' = loc
         ELSE \E q \in loc[t].todo :
                 /\ nodes' = nodes
                 /\ loc' = [loc EXCEPT ![t].todo = @ \ {q},
                                        ![t].call = OutCall("health probe", q)]
                 /\ pc' = [pc EXCEPT ![t] = "hc_call"]
    /\ TaskFrame /\ UNCHANGED <<Chain, Contracts, Peers, calls>>

\* HealthCheck: the probe returns, with status 200 or with an error, another
\* status or the timeout
HC_Answer(t) ==
    /\ pc[t] = "hc_call" /\ CanComplete(t)
    /\ \E ok \in (IF loc[t].call.to \in args.silent THEN {FALSE} ELSE BOOLEAN) :
          Peers' = [Peers EXCEPT ![loc[t].call.to] =
                       IF ok THEN [@ EXCEPT !.Active = TRUE, !.LastSeen = Now]
                             ELSE [@ EXCEPT !.Active = FALSE]]
    /\ loc' = [loc EXCEPT ![t].call = NoCall]
    /\ pc' = [pc EXCEPT ![t] = "hc_loop"]
    /\ TaskFrame /\ UNCHANGED <<Chain, Contracts, calls, nodes>>

\* P2PNetwork.BroadcastBlock: p2p.mutex.RLock(); one broadcast at a time
BB_RLock(t) ==
    /\ pc[t] = "bb_lock" /\ RLockFree(nodes.mutex)
    /\ \A q \in PeerIDs : pc[q] = "g_idle"
    /\ nodes' = [nodes EXCEPT !.mutex.r = @ \cup {t}]
    /\ loc' = [loc EXCEPT ![t].todo = DOMAIN Peers]
    /\ pc' = [pc EXCEPT ![t] = "bb_loop"]
    /\ TaskFrame /\ UNCHANGED <<Chain, Contracts, Peers, calls>>

\* BroadcastBlock: a goroutine is started for the next peer of the range if
\* it is active; the deferred RUnlock
BB_Next(t) ==
    /\ pc[t] = "bb_loop"
    /\ IF loc[t].todo = {}
         THEN /\ nodes' = [nodes EXCEPT !.mutex.r = @ \ {t}]
              /\ pc' = [pc EXCEPT ![t] = "idle"]
              /\ loc' = loc
         ELSE \E q \in loc[t].todo :
                 /\ nodes' = nodes
                 /\ loc' = [loc EXCEPT ![t].todo = @ \ {q}]
                 /\ pc' = IF Peers[q].Active THEN [pc EXCEPT ![q] = "g_send"] ELSE pc
    /\ TaskFrame /\ UNCHANGED <<Chain, Contracts, Peers, calls>>

\* the goroutine of a broadcast: sendBlockToPeer posts the block
G_Send(q) ==
    /\ pc[q] = "g_send"
    /\ loc' = [loc EXCEPT ![q].call = OutCall("broadcast push", q)]
    /\ pc' = [pc EXCEPT ![q] = "g_call"]
    /\ TaskFrame /\ UNCHANGED <<Chain, Contracts, Peers, calls, nodes>>

\* the goroutine: the post returns, with status 200 or with a failure
G_Answer(q) ==
    /\ pc[q] = "g_call" /\ CanComplete(q)
    /\ \E ok \in BOOLEAN : pc' = [pc EXCEPT ![q] = IF ok THEN "g_idle" ELSE "g_mark"]
    /\ loc' = [loc EXCEPT ![q].call = NoCall]
    /\ TaskFrame /\ UNCHANGED <<Chain, Contracts, Peers, calls, nodes>>

\* the goroutine: markPeerInactive, under the write lock
G_Mark(q) ==
    /\ pc[q] = "g_mark" /\ LockFree(nodes.mutex)
    /\ Peers' = markPeerInactive(Peers, q)
    /\ pc' = [pc EXCEPT ![q] = "g_idle"]
    /\ TaskFrame /\ UNCHANGED <<Chain, Contracts, calls, loc, nodes>>

\* P2PNetwork.AddPeer, once it is granted the write lock
AP_Lock(t) ==
    /\ pc[t] = "ap_lock" /\ LockFree(nodes.mutex)
    /\ Peers' = IF "p3" \in DOMAIN Peers THEN Peers
                ELSE [p \in DOMAIN Peers \cup {"p3"} |->
                         IF p = "p3" THEN NewPeer("p3", Now, TRUE) ELSE Peers[p]]
    /\ pc' = [pc EXCEPT ![t] = "idle"]
    /\ TaskFrame /\ UNCHANGED <<Chain, Contracts, calls, loc, nodes>>

\* the tickers and loops a successful Start leaves running
Started(n) == [n EXCEPT !.discTicker = TRUE, !.syncTicker = TRUE]

\* P2PNetwork.Start: PeerDiscovery.Start registers the node, or skips that in
\* bootstrap mode, then starts the discovery ticker and the two loops
M_Start ==
    /\ pc["main"] = "new"
    /\ IF args.registry
         THEN /\ loc' = [loc EXCEPT !["main"].call = OutCall("registration", Registry)]
              /\ pc' = [pc EXCEPT !["main"] = "m_reg"]
              /\ nodes' = nodes
         ELSE /\ loc' = loc
              /\ pc' = [pc EXCEPT !["main"] = "running", !["disc"] = "d_wait",
                                  !["resync"] = "s_wait"]
              /\ nodes' = Started(nodes)
    /\ TaskFrame /\ UNCHANGED <<Chain, Contracts, Peers, calls>>

\* Start: the registration returns; on an error Start returns it
M_Registered ==
    /\ pc["main"] = "m_reg" /\ CanComplete("main")
    /\ \E ok \in BOOLEAN :
          IF ok THEN /\ pc' = [pc EXCEPT !["main"] = "running", !["disc"] = "d_wait",
                                         !["resync"] = "s_wait"]
                     /\ nodes' = Started(nodes)
                ELSE /\ pc' = [pc EXCEPT !["main"] = "failed"]
                     /\ nodes' = nodes
    /\ loc' = [loc EXCEPT !["main"].call = NoCall]
    /\ TaskFrame /\ UNCHANGED <<Chain, Contracts, Peers, calls>>

\* P2PNetwork.Stop: PeerDiscovery.Stop stops the discovery ticker and
\* unregisters the node, or skips that in bootstrap mode
M_Stop ==
    /\ pc["main"] = "running"
    /\ nodes' = [nodes EXCEPT !.discTicker = FALSE]
    /\ IF args.registry
         THEN /\ loc' = [loc EXCEPT !["main"].call = OutCall("deregistration", Registry)]
              /\ pc' = [pc EXCEPT !["main"] = "m_unreg"]
         ELSE /\ loc' = loc
              /\ pc' = [pc EXCEPT !["main"] = "stopped"]
    /\ TaskFrame /\ UNCHANGED <<Chain, Contracts, Peers, calls>>

\* Stop: the deregistration returns or times out, and Stop returns
M_Unregistered ==
    /\ pc["main"] = "m_unreg" /\ CanComplete("main")
    /\ loc' = [loc EXCEPT !["main"].call = NoCall]
    /\ pc' = [pc EXCEPT !["main"] = "stopped"]
    /\ TaskFrame /\ UNCHANGED <<Chain, Contracts, Peers, calls, nodes>>

\* the discovery ticker sends a tick; its channel holds one
DiscTick ==
    /\ nodes.discTicker /\ nodes.discTick = 0
    /\ nodes' = [nodes EXCEPT !.discTick = 1]
    /\ TaskFrame /\ UNCHANGED <<Chain, Contracts, Peers, calls, pc, loc>>

\* the ticker of syncPeersLoop sends a tick
SyncTick ==
    /\ nodes.syncTicker /\ nodes.syncTick = 0
    /\ nodes' = [nodes EXCEPT !.syncTick = 1]
    /\ TaskFrame /\ UNCHANGED <<Chain, Contracts, Peers, calls, pc, loc>>

\* a background task begins a round: noted if Stop has returned
Ran(n, t) == [n EXCEPT !.ran = IF Stopped THEN @ \cup {t} ELSE @]

\* a background task has written a map: noted if Stop has returned
Changed(n, map, written) ==
    [n EXCEPT !.changed = IF Stopped /\ written THEN @ \cup {map} ELSE @]

\* PeerDiscovery.discoveryLoop takes a tick; discoverPeers returns at once in
\* bootstrap mode and asks the registry otherwise
D_Take ==
    /\ pc["disc"] = "d_wait" /\ nodes.discTick = 1
    /\ nodes' = [Ran(nodes, "disc") EXCEPT !.discTick = 0]
    /\ IF args.registry
         THEN /\ loc' = [loc EXCEPT !["disc"].call = OutCall("discovery pull", Registry)]
              /\ pc' = [pc EXCEPT !["disc"] = "d_call"]
         ELSE UNCHANGED <<loc, pc>>
    /\ TaskFrame /\ UNCHANGED <<Chain, Contracts, Peers, calls>>

\* discoverPeers: the registry's answer is in, or the request failed
D_Answer ==
    /\ pc["disc"] = "d_call" /\ CanComplete("disc")
    /\ \/ /\ loc' = [loc EXCEPT !["disc"].call = NoCall]
          /\ pc' = [pc EXCEPT !["disc"] = "d_wait"]
       \/ \E answer \in RegistryAnswers :
             /\ loc' = [loc EXCEPT !["disc"].answer = answer, !["disc"].call = NoCall]
             /\ pc' = [pc EXCEPT !["disc"] = "d_lock"]
    /\ TaskFrame /\ UNCHANGED <<Chain, Contracts, Peers, calls, nodes>>

\* discoverPeers: pd.mutex.Lock()
D_Lock ==
    /\ pc["disc"] = "d_lock" /\ LockFree(nodes.pdMutex)
    /\ nodes' = [nodes EXCEPT !.pdMutex.w = "disc"]
    /\ pc' = [pc EXCEPT !["disc"] = "d_store"]
    /\ TaskFrame /\ UNCHANGED <<Chain, Contracts, Peers, calls, loc>>

\* discoverPeers: knownPeers is updated and the lock released
D_Store ==
    /\ pc["disc"] = "d_store"
    /\ LET known == discoverPeersStore(nodes.knownPeers, loc["disc"].answer, args.shared)
       IN  nodes' = [Changed(nodes, "knownPeers", known # nodes.knownPeers)
                        EXCEPT !.knownPeers = known, !.pdMutex.w = "none"]
    /\ loc' = [loc EXCEPT !["disc"].answer = <<>>]
    /\ pc' = [pc EXCEPT !["disc"] = "d_wait"]
    /\ TaskFrame /\ UNCHANGED <<Chain, Contracts, Peers, calls>>

\* P2PNetwork.syncPeersLoop takes a tick and calls syncWithDiscoveredPeers
S_Take ==
    /\ pc["resync"] = "s_wait" /\ nodes.syncTick = 1
    /\ nodes' = [Ran(nodes, "resync") EXCEPT !.syncTick = 0]
    /\ pc' = [pc EXCEPT !["resync"] = "s_get"]
    /\ TaskFrame /\ UNCHANGED <<Chain, Contracts, Peers, calls, loc>>

\* syncWithDiscoveredPeers: PeerDiscovery.GetActivePeers, under pd's read lock
S_Get ==
    /\ pc["resync"] = "s_get" /\ RLockFree(nodes.pdMutex)
    /\ loc' = [loc EXCEPT !["resync"].todo = PDGetActivePeers(nodes.knownPeers)]
    /\ pc' = [pc EXCEPT !["resync"] = "s_lock"]
    /\ TaskFrame /\ UNCHANGED <<Chain, Contracts, Peers, calls, nodes>>

\* syncWithDiscoveredPeers: the peer map is refreshed under the write lock
S_Sync ==
    /\ pc["resync"] = "s_lock" /\ LockFree(nodes.mutex)
    /\ Peers' = syncWithDiscoveredPeersResult(Peers, loc["resync"].todo, Now)
    /\ nodes' = Changed(nodes, "Peers", Peers' # Peers)
    /\ loc' = [loc EXCEPT !["resync"].todo = {}]
    /\ pc' = [pc EXCEPT !["resync"] = "s_wait"]
    /\ TaskFrame /\ UNCHANGED <<Chain, Contracts, calls>>

\* the steps of the request tasks and of the goroutines of a broadcast
TaskStep(t) ==
    \/ SW_RLock(t) \/ SW_Next(t) \/ SW_Answer(t)
    \/ HC_Lock(t) \/ HC_Next(t) \/ HC_Answer(t)
    \/ BB_RLock(t) \/ BB_Next(t)
    \/ AP_Lock(t)

GoStep(q) == G_Send(q) \/ G_Answer(q) \/ G_Mark(q)

\* the steps of Start and Stop after their first, and of the two loops
MainStep == M_Registered \/ M_Unregistered

DiscStep == D_Take \/ D_Answer \/ D_Lock \/ D_Store

ResyncStep == S_Take \/ S_Get \/ S_Sync

\* the calls on the network and the goroutines they start (SpecCalls), on a
\* node that was not started: no registry, no ticker
InitCalls ==
    /\ InitTasks
    /\ ~args.registry /\ ~args.shared /\ args.silent # {Registry}

NextCalls ==
    \/ \E t \in Procs : T_Request(t) \/ TaskStep(t)
    \/ \E q \in PeerIDs : GoStep(q)

\* every task that can take a step takes one; whether a call is made is
\* left open
SpecCalls ==
    /\ InitCalls /\ [][NextCalls]_vars
    /\ \A t \in Procs : WF_vars(TaskStep(t))
    /\ \A q \in PeerIDs : WF_vars(GoStep(q))

\* Start, Stop and the two ticker loops (SpecTimers), with no call made on
\* the network meanwhile
InitTimers ==
    /\ InitTasks
    /\ args.silent # {"p1"}

NextTimers ==
    \/ M_Start \/ M_Stop \/ MainStep
    \/ DiscTick \/ SyncTick
    \/ DiscStep \/ ResyncStep

\* every task that can take a step takes one, and a running ticker ticks;
\* whether Start and Stop are called is left open
SpecTimers ==
    /\ InitTimers /\ [][NextTimers]_vars
    /\ WF_vars(MainStep) /\ WF_vars(DiscStep) /\ WF_vars(ResyncStep)
    /\ WF_vars(DiscTick) /\ WF_vars(SyncTick)

\* C27: no lock is held across a network call: a task that has an outbound
\* call in flight (a broadcast push, a chain pull, a health probe, a
\* discovery pull, a registration) holds neither the peer-map lock, for
\* reading or for writing, nor the discovery lock.
C27_NoLockAcrossCall ==
    \A t \in Tasks : loc[t].call # NoCall => ~HoldsLock(t)

\* C28: every outbound network call is bounded: a call in flight, also one
\* addressed to a host that never answers, returns in the end, so every
\* operation that was called returns, and an AddPeer waiting for the
\* peer-map lock is granted it.
C28_CallsReturn ==
    /\ \A t \in Tasks : (loc[t].call # NoCall) ~> (loc[t].call = NoCall)
    /\ \A t \in Procs : (pc[t] # "idle") ~> (pc[t] = "idle")

\* C29: shutdown stops all timers: once Stop has returned, neither the
\* discovery loop nor the peer-resync loop begins another round, and neither
\* the peer map nor the known-peer map is written by a background task.
C29_StopStopsTimers ==
    Stopped => (nodes.ran = {} /\ nodes.changed = {})

(***************************************************************************)
(* Misuse of the peer directory (SpecPeers)                                *)
(***************************************************************************)
\* the last call was AddPeer or RemovePeer, it returned an error, and no
\* goroutine of a broadcast has stepped since
MisuseJustDone ==
    /\ last.op \in {"AddPeer", "RemovePeer"}
    /\ ~last.ok
    /\ push = LastInput.pushed

\* C31: misuse of the peer directory is an error without effect: AddPeer
\* returns an error exactly when the id is already in the directory and
\* RemovePeer exactly when the id is not in it, and in both cases the peer
\* map is as it was before the call (the existing peer keeps its address,
\* last_seen and active flag).
C31_MisuseHasNoEffect ==
    /\ last.op = "AddPeer" => (last.ok <=> Given \notin DOMAIN PeersBefore)
    /\ last.op = "RemovePeer" => (last.ok <=> Given \in DOMAIN PeersBefore)
    /\ MisuseJustDone => Peers = PeersBefore

\* C31 witness: AddPeer was refused for an id whose peer is held as
\* inactive and was seen before now, and the peer is still so
C31_Witness ==
    /\ MisuseJustDone
    /\ last.op = "AddPeer"
    /\ Given \in DOMAIN PeersBefore
    /\ ~PeersBefore[Given].Active
    /\ PeersBefore[Given].LastSeen # Now
    /\ Peers[Given] = PeersBefore[Given]

(***************************************************************************)
(* Validation of one candidate block (SpecValidate)                        *)
(*                                                                         *)
(* IsValidBlock is called by AddBlock, by P2PNetwork.ReceiveBlock and by   *)
(* the receive-block handler, which passes it whatever block the request   *)
(* body decodes to.  Here it is called on its own, on candidates that      *)
(* vary the index, the previous_hash and the stored hash of a block built  *)
(* on the current chain, while AddBlock grows the chain in between.  A     *)
(* Block's index is a non-negative integer.                                *)
(***************************************************************************)
\* the previous_hash values a candidate may carry
CandidateLinks(chain) == {getLatestBlock(chain).Hash, chain[1].Hash, ForeignHash, EmptyHash}

\* the candidates handed to IsValidBlock: every index up to one past the
\* chain's length, every link above, and a stored hash that is the
\* recomputed one, empty, or some other hash
CandidateBlocks(chain, now) ==
    LET good == BuildBlock(chain, PeerData, now)
        shaped == { [good EXCEPT !.Index = i, !.PreviousHash = h] :
                       i \in 0..(Len(chain) + 1), h \in CandidateLinks(chain) }
    IN  UNION { { Rehash(b), [b EXCEPT !.Hash = EmptyHash], [b EXCEPT !.Hash = ForeignHash] } :
                   b \in shaped }

\* Blockchain.IsValidBlock called on a candidate
V_IsValidBlock ==
    /\ Room /\ Idle
    /\ \E block \in CandidateBlocks(Chain, Now) :
          /\ last' = Call("IsValidBlock", "", 0, FALSE, IsValidBlock(Chain, block))
          /\ args' = <<Input("IsValidBlock", block)>>
    /\ calls' = calls + 1
    /\ pre' = [Chain |-> Chain, Contracts |-> Contracts]
    /\ UNCHANGED <<Chain, Contracts, Peers, base, approvals, pc, loc, nodes, push>>

NextValidate ==
    \/ V_IsValidBlock
    \/ AddBlockDirect

SpecValidate == Init /\ [][NextValidate]_vars

\* the last call was IsValidBlock; Candidate is the block it was given
ValidateJustDone == last.op = "IsValidBlock"
Candidate == LastInput

\* C32: Validate(candidate) returns true iff the candidate's hash is
\* non-empty, equals the hash recomputed from the candidate's fields, and,
\* unless the candidate's index is 0, the candidate's previous_hash equals the
\* hash of the chain's current last block.
C32_ValidateIff ==
    ValidateJustDone =>
        (last.ok <=>
            /\ Candidate.Hash # EmptyHash
            /\ Candidate.Hash = calculateHash(Candidate)
            /\ Candidate.Index # 0 =>
                   Candidate.PreviousHash = getLatestBlock(Chain).Hash)

\* C32 witness: after an append, a candidate of index 0 whose previous_hash
\* is not the last hash of the chain was found valid
C32_Witness ==
    /\ ValidateJustDone
    /\ last.ok
    /\ Len(Chain) > base
    /\ Candidate.Index = 0
    /\ Candidate.PreviousHash = ForeignHash

(***************************************************************************)
(* The first block of the chain (Spec)                                     *)
(***************************************************************************)
\* C33: the first block of the node's chain always has an empty
\* previous_hash, in every reachable state, including after ReplaceChain or
\* SyncWithPeers adopted a candidate chain.
C33_GenesisUnlinked == Chain[1].PreviousHash = EmptyHash

(***************************************************************************)
(* Corrupting a link of a chain built by appends (SpecAppend)              *)
(***************************************************************************)
\* the chain with the previous_hash of the block at position pos replaced by
\* hash, the block's stored hash left as it was
CorruptLink(chain, pos, hash) == [chain EXCEPT ![pos].PreviousHash = hash]

\* the values a corrupted previous_hash may take: empty, the hash of a block
\* the chain does not hold, and the hash of any block of the chain
LinkValues(chain) == {EmptyHash, ForeignHash} \cup { chain[i].Hash : i \in 1..Len(chain) }

\* C34: for a chain built by Append calls, changing the previous_hash of
\* any one block after the first (leaving its stored hash as it was) makes
\* IsChainValid return false.
C34_CorruptLinkDetected ==
    \A pos \in 2..Len(Chain) :
        \A hash \in LinkValues(Chain) \ {Chain[pos].PreviousHash} :
            ~IsChainValid(CorruptLink(Chain, pos, hash))

\* C34 witness: a valid chain of at least four blocks, the last appended in
\* this run, whose second block given the hash of the third as previous_hash
\* is found invalid
C34_Witness ==
    /\ last.op \in AppendingOps
    /\ last.ok
    /\ Len(Chain) = Len(pre.Chain) + 1
    /\ Len(Chain) >= 4
    /\ IsChainValid(Chain)
    /\ ~IsChainValid(CorruptLink(Chain, 2, Chain[3].Hash))

(***************************************************************************)
(* The bookkeeping of the pipeline (SpecAppend): current_step against the  *)
(* statuses of the validation steps                                        *)
(***************************************************************************)
\* WorkflowManager.GetContractWorkflowStatus: the counters it reports
GetContractWorkflowStatus(contract) ==
    [CurrentStep |-> contract.CurrentStep,
     TotalSteps |-> Len(contract.ValidationSteps),
     CompletedSteps |-> Cardinality({ i \in 1..Len(contract.ValidationSteps) :
                            contract.ValidationSteps[i].Status = ValidationApproved }),
     CanAdvance |-> contract.Status # StatusRejected /\ contract.Status # StatusCompleted]

\* C35: in every state reached by the workflow operations, each contract
\* has 1 <= current_step <= 7, every validation step numbered below
\* current_step is Approved, every step numbered above it is Pending, the
\* step at current_step (when it is <= 6) is Pending or Rejected, and the
\* completed_steps that GetStatus reports is current_step - 1.
C35_StepBookkeeping ==
    \A id \in DOMAIN Contracts :
        LET c == Contracts[id]
            k == c.CurrentStep
        IN  /\ k \in 1..(NumSteps + 1)
            /\ Len(c.ValidationSteps) = NumSteps
            /\ \A i \in 1..NumSteps :
                  /\ i < k => c.ValidationSteps[i].Status = ValidationApproved
                  /\ i > k => c.ValidationSteps[i].Status = ValidationPending
                  /\ i = k => c.ValidationSteps[i].Status
                                 \in {ValidationPending, ValidationRejected}
            /\ GetContractWorkflowStatus(c).CompletedSteps = k - 1

\* C35 witness: step 2 was rejected and then approved, and the contract
\* stands at step 3 with two completed steps
C35_Witness ==
    /\ last.op = "ValidateStep" /\ last.ok /\ last.approved /\ last.step = 2
    /\ last.cid \in DOMAIN pre.Contracts
    /\ pre.Contracts[last.cid].ValidationSteps[2].Status = ValidationRejected
    /\ Contracts[last.cid].CurrentStep = 3
    /\ GetContractWorkflowStatus(Contracts[last.cid]).CompletedSteps = 2

(***************************************************************************)
(* The status of a contract against its current step (Spec)                *)
(***************************************************************************)
\* C36: in every reachable state a contract's status is either Rejected or
\* the state bound to its current_step (1 Draft, 2 TechnicalReview,
\* 3 LegalReview, 4 ContractsReview, 5 AdminReview, 6 BudgetReview,
\* 7 AuthorizedForPublication); no sequence of operations produces Completed
\* or any other status.
C36_StatusFollowsStep ==
    \A id \in DOMAIN Contracts :
        \/ Contracts[id].Status = "REJECTED"
        \/ /\ Contracts[id].CurrentStep \in 1..(NumSteps + 1)
           /\ Contracts[id].Status = StateBoundTo[Contracts[id].CurrentStep]

\* C36 witness: a contract rejected at step 6 had that step approved next,
\* and is authorized for publication at step 7
C36_Witness ==
    /\ last.op = "ValidateStep" /\ last.ok /\ last.approved /\ last.step = NumSteps
    /\ last.cid \in DOMAIN pre.Contracts
    /\ pre.Contracts[last.cid].Status = "REJECTED"
    /\ Contracts[last.cid].CurrentStep = NumSteps + 1
    /\ Contracts[last.cid].Status = "AUTHORIZED_FOR_PUBLICATION"

(***************************************************************************)
(* ValidateStep and the caller's role (SpecRoles)                          *)
(*                                                                         *)
(* The handler turns the role string of the request body into an AdminRole *)
(* without looking at it and passes it on.  Here ValidateStep is called    *)
(* with the role of the step, another role, or a string that names no      *)
(* role, and each call is recorded with its arguments, so that its outcome *)
(* can be set against the outcome the same call has from the same state    *)
(* with every other role argument.                                         *)
(***************************************************************************)
\* the role arguments of a call: the nine roles, no role, and some string
RoleArguments ==
    {RoleProjectDeveloper, RoleTechnicalCommission, RoleLegalCommission,
     RoleContractsChief, RoleAdminChief, RoleBudgetAuthority, RoleComptroller,
     RoleProsecutor, RoleCitizen, "", "NO_SUCH_ROLE"}

\* WorkflowManager.ValidateStep called with any step number, and with the
\* role bound to the step, the citizen role, or a string that names no role
R_ValidateStep ==
    /\ Room /\ Idle
    /\ \E cid \in AllIDs, n \in StepNumbers, approved \in BOOLEAN :
       \E role \in CallerRoles(n) \cup {"NO_SUCH_ROLE"} :
          LET r == ValidateStepResult(Chain, Contracts, cid, n, "v1", "V One",
                                      role, approved, "ok", Now)
          IN  /\ Chain' = r.Chain
              /\ Contracts' = r.Contracts
              /\ last' = Call("ValidateStep", cid, n, approved, r.ok)
              /\ args' = <<Input("ValidateStep",
                                 [cid |-> cid, step |-> n, approved |-> approved,
                                  role |-> role])>>
              /\ approvals' = IF r.ok /\ approved
                                THEN [approvals EXCEPT ![cid] = Append(@, n)]
                                ELSE approvals
    /\ calls' = calls + 1
    /\ pre' = [Chain |-> Chain, Contracts |-> Contracts]
    /\ UNCHANGED <<Peers, base, pc, loc, nodes, push>>

NextRoles ==
    \/ R_ValidateStep
    \/ AddContract

SpecRoles == Init /\ [][NextRoles]_vars

\* what the claim compares of a contract: current_step, status and the
\* statuses of its validation steps; nothing when the contract is not held
Outcome(contracts, cid) ==
    IF cid \notin DOMAIN contracts THEN <<>>
    ELSE <<contracts[cid].CurrentStep, contracts[cid].Status,
           [i \in 1..Len(contracts[cid].ValidationSteps) |->
               contracts[cid].ValidationSteps[i].Status]>>

\* the same call as the last one, from the same state, with another role
SameCallAs(role) ==
    ValidateStepResult(pre.Chain, pre.Contracts, LastInput.cid, LastInput.step,
                       "v1", "V One", role, LastInput.approved, "ok", Now)

\* C37: the outcome of ValidateStep does not depend on the caller's role:
\* two runs from the same state with the same contract id, step number and
\* decision but different role arguments (a role other than the one bound
\* to the step included) both succeed or both fail, and produce the same
\* current_step, status and step statuses.
C37_RoleIrrelevant ==
    last.op = "ValidateStep" =>
        \A role \in RoleArguments :
            /\ SameCallAs(role).ok = last.ok
            /\ Outcome(SameCallAs(role).Contracts, LastInput.cid)
                   = Outcome(Contracts, LastInput.cid)

\* C37 witness: step 2, bound to the technical commission, was approved by a
\* caller passing the citizen role, and the contract stands at step 3
C37_Witness ==
    /\ last.op = "ValidateStep" /\ last.ok /\ last.approved
    /\ LastInput.step = 2
    /\ LastInput.role = RoleCitizen
    /\ pre.Contracts[LastInput.cid].ValidationSteps[2].Role = RoleTechnicalCommission
    /\ Contracts[LastInput.cid].CurrentStep = 3
    /\ SameCallAs(RoleTechnicalCommission).ok

(***************************************************************************)
(* What a receipt appends (SpecRec)                                        *)
(***************************************************************************)
\* the last call appended one block built on the chain as it was: the old
\* blocks are kept, the new block's index is the old length, its
\* previous_hash the old last hash, and a chain that was valid is valid
AppendedLocalBlock ==
    /\ Len(Chain) = Len(pre.Chain) + 1
    /\ SubSeq(Chain, 1, Len(pre.Chain)) = pre.Chain
    /\ getLatestBlock(Chain).Index = Len(pre.Chain)
    /\ getLatestBlock(Chain).PreviousHash = getLatestBlock(pre.Chain).Hash
    /\ IsChainValid(pre.Chain) => IsChainValid(Chain)

\* the last call was a receipt that reported success
ReceiveSucceeded == last.op \in ReceiveOps /\ last.ok

\* C38 as stated: the block appended by Receive is always built locally:
\* whatever index the received block declares, the appended block has index
\* equal to the previous local chain length and previous_hash equal to the
\* previous local last hash, so a successful Receive keeps IsChainValid true
\* and grows the chain by exactly one.
C38_ReceiveAppendsLocalBlock == ReceiveSucceeded => AppendedLocalBlock

\* C38 amended: a successful Receive of a block whose hash the chain already
\* holds leaves the chain as it was; every other successful Receive appends
\* exactly one block, built locally: whatever index the received block
\* declares, the appended block has index equal to the previous local chain
\* length and previous_hash equal to the previous local last hash, and a
\* chain for which IsChainValid held still satisfies it.
C38_ReceiveAppendsLocalBlockIfNew ==
    ReceiveSucceeded =>
        IF HasBlock(pre.Chain, LastInput.Hash) THEN Chain = pre.Chain
        ELSE AppendedLocalBlock

\* C38 witness: a block declaring index 0 and a foreign previous_hash was
\* received on a chain of at least two blocks and appended at the end,
\* linked to the local last block
C38_Witness ==
    /\ ReceiveSucceeded
    /\ Len(pre.Chain) >= 2
    /\ LastInput.Index = 0
    /\ LastInput.PreviousHash = ForeignHash
    /\ ~HasBlock(pre.Chain, LastInput.Hash)
    /\ getLatestBlock(Chain).Index = Len(pre.Chain)
    /\ getLatestBlock(Chain).PreviousHash = getLatestBlock(pre.Chain).Hash

(***************************************************************************)
(* Reconciliation with several peers (SpecPull)                            *)
(*                                                                         *)
(* SyncWithPeers asks every active peer in turn.  A health check that      *)
(* reaches both peers of the map makes both active, and AddBlock grows the *)
(* local chain, so that a run of SyncWithPeers fetches up to two chains,   *)
(* each shorter than, as long as or longer than the local one, honest or   *)
(* flawed.                                                                 *)
(***************************************************************************)
\* P2PNetwork.SyncWithPeers, recorded with the answers of the peers it
\* visited, in the order of the visit
L_SyncWithPeers ==
    /\ Room /\ Idle
    /\ LET ids == ActivePeerIDs(Peers)
       IN  \E answers \in [1..Len(ids) -> Answers(Len(Chain))] :
              LET r == SyncLoop(Chain, Contracts, answers, 1)
              IN  /\ Chain' = r.Chain
                  /\ Contracts' = r.Contracts
                  /\ last' = Call("SyncWithPeers", "", 0, FALSE, TRUE)
                  /\ args' = <<Input("SyncWithPeers", answers)>>
    /\ calls' = calls + 1
    /\ pre' = [Chain |-> Chain, Contracts |-> Contracts]
    /\ UNCHANGED <<Peers, base, approvals, pc, loc, nodes, push>>

NextPull ==
    \/ L_SyncWithPeers
    \/ P_HealthCheck
    \/ AddBlockDirect

SpecPull == Init /\ [][NextPull]_vars

\* the last call was SyncWithPeers; Fetched is what the peers answered, in
\* the order they were visited
SyncRunDone == last.op = "SyncWithPeers"
Fetched == LastInput

\* the answers of the run that are chains and pass IsValidChain
FetchedValid == { i \in DOMAIN Fetched : ~Fetched[i].err /\ IsValidChain(Fetched[i].chain) }

\* the local chain after the first k peers of the run were visited
ChainAfter(k) == SyncLoop(pre.Chain, pre.Contracts, SubSeq(Fetched, 1, k), 1).Chain

\* C39: when SyncWithPeers completes, the local chain is at least as long
\* as every chain that was fetched from an active peer during that run and
\* passed ValidateChain, and the local chain length never decreased during
\* the run.
C39_SyncNeverShortens ==
    SyncRunDone =>
        /\ Chain = ChainAfter(Len(Fetched))
        /\ \A i \in FetchedValid : Len(Chain) >= Len(Fetched[i].chain)
        /\ \A k \in 1..Len(Fetched) : Len(ChainAfter(k)) >= Len(ChainAfter(k - 1))
        /\ Len(Chain) >= Len(pre.Chain)

\* C39 witness: two peers answered with valid chains; the first, longer than
\* the local chain, was taken, and the second, another chain that is not
\* longer than the first, was not
C39_Witness ==
    /\ SyncRunDone
    /\ Len(Fetched) >= 2
    /\ FetchedValid = DOMAIN Fetched
    /\ Len(Fetched[1].chain) > Len(pre.Chain)
    /\ Fetched[2].chain # Fetched[1].chain
    /\ Len(Fetched[2].chain) <= Len(Fetched[1].chain)
    /\ Chain = Fetched[1].chain

====
